---- MODULE Spec2Model ----
(***************************************************************************)
(* State-machine model of the news fetcher (news_scraper.py) and of the    *)
(* handlers that drive it (bot.py send_personalized_news, scheduler.py     *)
(* _send_scheduled_news).  One action per await point of the coroutines.   *)
(***************************************************************************)
EXTENDS Integers, Sequences, FiniteSets, TLC

VARIABLES
    auto_scrape_enabled, \* NewsScraper.auto_scrape_enabled
    pc,                  \* position of the one coroutine in flight
    caller,              \* who called get_latest_news: "api", "news", "sched"
    topics,              \* argument of get_latest_news
    limit,               \* argument of get_latest_news
    ti,                  \* index of the topic the for loop of line 100 is at
    all_news,            \* get_latest_news: all_news
    news_items,          \* _scrape_topic_news / scrape_current_affairs: news_items
    handles,             \* _scrape_topic_news: handles
    feeds,               \* _scrape_rss_feed: feeds
    ui,                  \* index of the next source unit of the current tier
    error_count,         \* _scrape_topic_news: error_count
    twitter_success,     \* _scrape_topic_news: twitter_success
    attempted,           \* source units contacted so far in this call
    failed,              \* the first source unit or topic that raised in this call
    result,              \* value returned by get_latest_news
    outcome,             \* "none", "returned" or "raised" (get_latest_news)
    finished,            \* how the last handler or call ended, "none" while one runs
    delivered,           \* what the handler in flight sent the user: "digest", "voice"
    voice_path,          \* what generate_voice_note returned: "unset", "None", "path"
    news_data,           \* create_news_digest / summarize_news: news_data
    language,            \* create_news_digest / summarize_news: language
    max_length,          \* the max_length keyword of the call: {} when not passed
    summarizer,          \* NewsSummarizer.summarizer: "None" or "pipeline"
    summarizer_calls,    \* calls of self.summarizer(...) made by the call in flight
    digest,              \* the text the call returns, as the parts joined by "\n\n"
    digest_outcome,      \* "none", "returned" or "raised" (synthesis)
    query,               \* search_news / _extract_keywords: query, as its words
    keywords,            \* search_news: keywords
    search_results,      \* search_news: search_results
    retry_count,         \* _get_tweets_from_handle: retry_count
    attempts,            \* scraper queries the call of _get_tweets_from_handle made
    handle_tweets,       \* _get_tweets_from_handle: tweets
    tweets_returned,     \* what _get_tweets_from_handle returned
    prefs,               \* the table user_preferences: a row or Absent per user
    chosen,              \* the frequency button each user pressed last, or "none"
    running,             \* NewsScheduler.running
    threads,             \* position of every scheduler thread started so far
    jobs,                \* the jobs registered with the schedule module
    due,                 \* the registered jobs whose time has come
    selected,            \* the job run last and the users it selected
    store_call,          \* the last direct call of the preference store and its result
    contents,            \* _prepare_text_for_summarization: len of each item's clean_content
    combined,            \* _prepare_text_for_summarization: len of the text returned
    send_users,          \* _send_news_to_users: user_ids
    send_i,              \* _send_news_to_users: place of the for loop in user_ids
    counted,             \* scrape_current_affairs: the titles appended to headlines
                         \* (line 474) in the call in flight
    send_log             \* the calls of _send_scheduled_news made, the step that
                         \* raised in each and how each ended

\* the variables of the synthesizer, of the search and of the delivery
digestVars == <<news_data, language, max_length, summarizer, summarizer_calls, digest,
                digest_outcome>>
searchVars == <<query, keywords, search_results>>
deliveryVars == <<delivered, voice_path>>
retryVars == <<retry_count, attempts, handle_tweets, tweets_returned>>
chatVars == <<prefs, chosen>>
schedulerVars == <<running, threads, jobs, due, selected>>
\* the variables of the calls made on the store, the synthesizer and the scheduler
directVars == <<store_call, contents, combined, send_users, send_i, send_log>>
\* the variables of the retry loop, of the preference store and of the scheduler
botVars == <<retryVars, chatVars, schedulerVars, directVars, counted>>

vars == <<auto_scrape_enabled, pc, caller, topics, limit, ti, all_news, news_items,
          handles, feeds, ui, error_count, twitter_success, attempted, failed,
          result, outcome, finished, deliveryVars, digestVars, searchVars, botVars>>

----------------------------------------------------------------------------
(* Bounds of the model *)

\* timestamps are 0..MaxTime; MaxTime is the time of the fetch (datetime.now())
MaxTime == 1
\* largest limit a direct call of get_latest_news passes
MaxLimit == 3
\* most tweets, feed entries and page containers the sources of one call deliver
\* while fewer than that many items are collected
MaxItems == 3
\* most tweets, feed entries or page containers one source unit delivers
MaxUnit == 1
\* most items a synthesis is given
MaxDigestItems == 2
\* most words of a query keyword extraction is checked on
MaxQueryLen == 6
\* users of the bot
MaxUsers == 2
\* scheduler threads started while the bot runs
MaxThreads == 2
\* items given to _prepare_text_for_summarization
MaxContents == 6

(* Program constants *)
HandleSlice == 3       \* handles[:3]
max_retries == 5       \* _scrape_topic_news: max_retries
FeedCap == 5           \* soup.find_all('item')[:5]
DayWindow == 1         \* timedelta(days=1)
NewsLimit == 15        \* send_personalized_news: limit=15
WeeklyLimit == 15      \* _send_scheduled_news: weekly limit
ScheduledLimit == 8    \* _send_scheduled_news: daily / evening limit
TitleMinLen == 10      \* len(title) > 10

Times == 0..MaxTime
Now == MaxTime

Min(a, b) == IF a < b THEN a ELSE b

\* Telegram user ids
Users == 1..MaxUsers

\* the table user_preferences without rows (user_id is its primary key)
NoRows ==
    [u \in {} |-> [language |-> "", topics |-> <<>>, frequency |-> "", setup_complete |-> 0]]

\* no job has run yet
NoRun == [job |-> "none", users |-> {}]

\* the store has not been called directly yet
NoCall == [op |-> "none", user |-> 0, key |-> "", returned |-> FALSE]

----------------------------------------------------------------------------
(* Source configuration tables (NewsScraper.__init__) *)

news_handles ==
    [general    |-> <<"ANI", "ndtv", "timesofindia", "IndianExpress", "htTweets">>,
     technology |-> <<"ETtech", "YourStory", "Inc42", "Medianama", "trak_in">>,
     sports     |-> <<"ESPNcricinfo", "cricbuzz", "KhelNow", "IndiaToday_SPO">>]

rss_feeds ==
    [general    |-> <<"feeds.feedburner.com/ndtvnews-top-stories",
                      "timesofindia.indiatimes.com/rssfeedstopstories.cms",
                      "www.hindustantimes.com/feeds/rss/news/latest.xml",
                      "www.indiatoday.in/rss/home",
                      "www.news18.com/rss/india.xml">>,
     technology |-> <<"economictimes.indiatimes.com/tech/rss/feedsdefault.cms",
                      "www.theverge.com/rss/index.xml",
                      "www.digit.in/feed",
                      "gadgets.ndtv.com/rss/feeds">>,
     sports     |-> <<"timesofindia.indiatimes.com/rssfeeds/4719148.cms",
                      "www.espn.in/espn/rss/cricket/news",
                      "sports.ndtv.com/rss/all",
                      "www.sportskeeda.com/feed">>]

current_affairs_sources ==
    <<"www.indiatoday.in", "timesofindia.indiatimes.com", "www.hindustantimes.com">>

\* dict.get(key, default)
DictGet(d, key, default) == IF key \in DOMAIN d THEN d[key] ELSE default

\* handles = self.news_handles.get(topic, self.news_handles['general'])
HandlesFor(topic) == DictGet(news_handles, topic, news_handles["general"])

\* feeds = self.rss_feeds.get(topic, [])
FeedsFor(topic) == DictGet(rss_feeds, topic, <<>>)

\* seq[:n] for n >= 0
Take(s, n) == SubSeq(s, 1, Min(Len(s), n))

----------------------------------------------------------------------------
(* Texts.  A text is one of a few literal strings; what Python computes on *)
(* each of them (len, split, substring tests) is tabulated below.          *)

NewsTweetText  == "Breaking: minister announces new metro line for the city today"
PromoTweetText == "Latest news on the new metro line for the city, subscribe to our channel"
ShortTweetText == "Latest update soon"
EightWordText  == "Latest update on the metro line coming soon"
PlainTweetText == "The minister opened a new metro line for the city on Friday"
FeedText       == "Markets closed higher on Friday"
LongTitle1     == "Monsoon arrives in Kerala"
LongTitle2     == "Parliament passes budget"
ShortTitle     == "Live"
FeedTitle      == "Sensex ends higher"

TweetTexts == {NewsTweetText, PromoTweetText, ShortTweetText, EightWordText,
               PlainTweetText}
PageTitles == {LongTitle1, LongTitle2, ShortTitle}

\* len(text)
StrLen(text) ==
    CASE text = ""             -> 0
      [] text = NewsTweetText  -> 62
      [] text = PromoTweetText -> 72
      [] text = ShortTweetText -> 18
      [] text = EightWordText  -> 43
      [] text = PlainTweetText -> 59
      [] text = FeedText       -> 31
      [] text = LongTitle1     -> 25
      [] text = LongTitle2     -> 24
      [] text = ShortTitle     -> 4
      [] text = FeedTitle      -> 18

\* len(content.split())
WordCount(text) ==
    CASE text = ""             -> 0
      [] text = NewsTweetText  -> 10
      [] text = PromoTweetText -> 14
      [] text = ShortTweetText -> 3
      [] text = EightWordText  -> 8
      [] text = PlainTweetText -> 12
      [] text = FeedText       -> 5
      [] text = LongTitle1     -> 4
      [] text = LongTitle2     -> 3
      [] text = ShortTitle     -> 1
      [] text = FeedTitle      -> 3

\* any(indicator in content_lower for indicator in news_indicators)
HasNewsIndicator(text) ==
    text \in {NewsTweetText, PromoTweetText, ShortTweetText, EightWordText}

\* any(promo in content_lower for promo in ['buy now', 'subscribe', ...])
HasPromoTerm(text) == text = PromoTweetText

MinWords == 8          \* len(content.split()) > 8

\* a filter that lets a text of MinWords words through
IsNewsTweetAtLeast(content) ==
    /\ HasNewsIndicator(content)
    /\ WordCount(content) >= MinWords
    /\ ~HasPromoTerm(content)

\* _is_news_tweet
IsNewsTweet(content) ==
    /\ HasNewsIndicator(content)
    /\ WordCount(content) > MinWords
    /\ ~HasPromoTerm(content)

NewsTweetTitle  == "Breaking: minister announces new metro line for the city today."
PromoTweetTitle == "Latest news on the new metro line for the city, subscribe to our channel."

\* _extract_title: the tweet texts above hold no '.', no URL, no mention and no
\* hashtag, so the first "sentence" is the whole text; when it is longer than 20
\* characters it is returned with a '.' appended, else the text itself is (every
\* text is shorter than 100 characters)
ExtractTitle(content) ==
    CASE content = NewsTweetText  -> NewsTweetTitle
      [] content = PromoTweetText -> PromoTweetTitle
      [] Len(content) > 20        -> content \o "."
      [] OTHER                    -> content

----------------------------------------------------------------------------
(* Timestamps: [t, aware].  Comparing an aware with a naive datetime raises *)
(* TypeError in Python.                                                     *)

Naive(t) == [t |-> t, aware |-> FALSE]
Aware(t) == [t |-> t, aware |-> TRUE]

\* datetime.now(): naive local time
DatetimeNow == Naive(Now)

DateFormats == {"rfc822_offset", "rfc822_gmt", "iso_offset", "plain", "other"}

\* _parse_rss_date: the four strptime formats in order, then datetime.now()
\*   '%a, %d %b %Y %H:%M:%S %z'  -> aware     '%a, %d %b %Y %H:%M:%S GMT' -> naive
\*   '%Y-%m-%dT%H:%M:%S%z'       -> aware     '%Y-%m-%d %H:%M:%S'         -> naive
ParseRssDate(d) ==
    CASE d.fmt = "rfc822_offset" -> Aware(d.t)
      [] d.fmt = "rfc822_gmt"    -> Naive(d.t)
      [] d.fmt = "iso_offset"    -> Aware(d.t)
      [] d.fmt = "plain"         -> Naive(d.t)
      [] OTHER                   -> DatetimeNow

\* a < b on datetimes raises TypeError when exactly one of them is aware
CompareRaises(a, b) == a.aware # b.aware

----------------------------------------------------------------------------
(* list.sort(key=timestamp, reverse=True): stable, descending *)

RECURSIVE InsertDesc(_, _)
InsertDesc(sorted, x) ==
    IF sorted = <<>> THEN <<x>>
    ELSE IF Head(sorted).timestamp.t >= x.timestamp.t
         THEN <<Head(sorted)>> \o InsertDesc(Tail(sorted), x)
         ELSE <<x>> \o sorted

\* the sort without reverse=True: ascending
RECURSIVE SortAscending(_)
SortAscending(s) ==
    IF Len(s) <= 1 THEN s
    ELSE LET rest == SortAscending(SubSeq(s, 1, Len(s) - 1))
             x == s[Len(s)]
             k == Cardinality({i \in 1..Len(rest) : rest[i].timestamp.t <= x.timestamp.t})
         IN  SubSeq(rest, 1, k) \o <<x>> \o SubSeq(rest, k + 1, Len(rest))

RECURSIVE SortDesc(_)
SortDesc(s) ==
    IF s = <<>> THEN <<>>
    ELSE InsertDesc(SortDesc(SubSeq(s, 1, Len(s) - 1)), s[Len(s)])

\* the sort compares items of both kinds as soon as the list holds both
SortRaises(s) ==
    \E i, j \in 1..Len(s) : CompareRaises(s[i].timestamp, s[j].timestamp)


----------------------------------------------------------------------------
(* Tier 1: tweets of one handle *)

\* what the search scraper of one handle yields: it raises, or it yields tweets
RawTweet == [content : TweetTexts, date : [t : Times, aware : BOOLEAN]]

\* the for loop of _get_tweets_from_handle over the scraper's items, from the
\* i-th item on: [err |-> the attempt raised, tweets |-> the tweets appended]
RECURSIVE ScanTweets(_, _, _, _)
ScanTweets(raw, i, lim, acc) ==
    IF i > Len(raw) \/ i - 1 >= lim
    THEN [err |-> FALSE, tweets |-> acc]
    ELSE IF CompareRaises(raw[i].date, DatetimeNow)
         THEN [err |-> TRUE, tweets |-> acc]
         ELSE IF raw[i].date.t < Now - DayWindow
              THEN [err |-> FALSE, tweets |-> acc]
              ELSE ScanTweets(raw, i + 1, lim, Append(acc, raw[i]))

\* _get_tweets_from_handle(handle, limit): an attempt that raises or collects no
\* tweet is retried; every attempt sees the same scraper output, so the retries
\* end the same way and the function returns [] after the last one
GetTweets(scr, lim) ==
    IF scr.raises THEN <<>>
    ELSE LET r == ScanTweets(scr.tweets, 1, lim, <<>>)
         IN  IF ~r.err /\ Len(r.tweets) > 0 THEN r.tweets ELSE <<>>

\* the items _scrape_topic_news appends for the tweets of one handle
\* (source is f"@{handle}": the handle stands for it)
RECURSIVE TweetItems(_, _, _)
TweetItems(tweets, handle, topic) ==
    IF tweets = <<>> THEN <<>>
    ELSE LET tw == Head(tweets)
             rest == TweetItems(Tail(tweets), handle, topic)
         IN  IF IsNewsTweet(tw.content)
             THEN <<[title     |-> ExtractTitle(tw.content),
                     content   |-> tw.content,
                     source    |-> handle,
                     timestamp |-> tw.date,
                     topic     |-> topic]>> \o rest
             ELSE rest

----------------------------------------------------------------------------
(* Tier 2: entries of one feed *)

PubDate == [fmt : DateFormats, t : Times]

\* an <item> element: which children it has and their stripped text
FeedEntry == [has_title : BOOLEAN, has_description : BOOLEAN,
              description : {"", FeedText}, has_pub_date : BOOLEAN, pub_date : PubDate]

\* truth value of item.find(...): None when the element is absent, else a Tag,
\* and a Tag is true whatever its contents
TagTruthy(present, text) == present

\* the items _scrape_rss_feed appends for one feed
RECURSIVE FeedItems(_, _)
FeedItems(entries, topic) ==
    IF entries = <<>> THEN <<>>
    ELSE LET e == Head(entries)
             rest == FeedItems(Tail(entries), topic)
         IN  IF TagTruthy(e.has_title, FeedTitle)
                /\ TagTruthy(e.has_description, e.description)
             THEN <<[title     |-> FeedTitle,
                     content   |-> e.description,
                     source    |-> "RSS Feed",
                     timestamp |-> IF e.has_pub_date THEN ParseRssDate(e.pub_date)
                                   ELSE DatetimeNow,
                     topic     |-> topic]>> \o rest
             ELSE rest

----------------------------------------------------------------------------
(* current_affairs: headlines of one section-front page *)

\* a container element matched on the page: head is the headline element found
\* ("none", "anchor_href": an <a> with href, "other": a heading or an <a> without
\* href), has_link says whether the container holds an <a> with href
Article == [head : {"none", "anchor_href", "other"}, title : PageTitles,
            has_link : BOOLEAN, snippet : {"", FeedText}]

\* the loop over the articles of one page, from the i-th on; returns news_items
RECURSIVE PageLoop(_, _, _, _, _, _)
PageLoop(articles, i, headlines, items, page, lim) ==
    IF i > Len(articles) THEN items
    ELSE
      LET a == articles[i] IN
      IF a.head = "none" THEN PageLoop(articles, i + 1, headlines, items, page, lim)
      ELSE
        LET appended ==
                /\ a.head = "other"
                /\ a.has_link
                /\ a.title # "" /\ StrLen(a.title) > TitleMinLen
                /\ ~\E k \in 1..Len(headlines) : headlines[k].title = a.title
            headlines2 ==
                IF appended
                THEN Append(headlines,
                            [title     |-> a.title,
                             content   |-> IF a.snippet # "" THEN a.snippet ELSE a.title,
                             source    |-> page,
                             timestamp |-> DatetimeNow])
                ELSE headlines
        IN  IF appended /\ Len(headlines2) >= lim
            THEN items                            \* break of line 483
            ELSE LET items2 == items \o headlines2    \* news_items.extend(headlines)
                 IN  IF Len(items2) >= lim THEN items2    \* break of line 489
                     ELSE PageLoop(articles, i + 1, headlines2, items2, page, lim)

\* the same loop, returning the titles it appends to headlines (line 474): the
\* headlines counted by the test of line 482
RECURSIVE PageHeadlines(_, _, _, _, _)
PageHeadlines(articles, i, headlines, items, lim) ==
    IF i > Len(articles) THEN {headlines[k] : k \in 1..Len(headlines)}
    ELSE
      LET a == articles[i] IN
      IF a.head = "none" THEN PageHeadlines(articles, i + 1, headlines, items, lim)
      ELSE
        LET appended ==
                /\ a.head = "other"
                /\ a.has_link
                /\ a.title # "" /\ StrLen(a.title) > TitleMinLen
                /\ ~\E k \in 1..Len(headlines) : headlines[k] = a.title
            headlines2 == IF appended THEN Append(headlines, a.title) ELSE headlines
            titles == {headlines2[k] : k \in 1..Len(headlines2)}
        IN  IF appended /\ Len(headlines2) >= lim THEN titles
            ELSE IF Len(items) + Len(headlines2) >= lim THEN titles
            ELSE PageHeadlines(articles, i + 1, headlines2,
                               items \o headlines2, lim)

\* formatted_news: news_items[:limit] tagged current_affairs
RECURSIVE FormatNews(_)
FormatNews(items) ==
    IF items = <<>> THEN <<>>
    ELSE <<[title     |-> Head(items).title,
            content   |-> Head(items).content,
            source    |-> Head(items).source,
            timestamp |-> Head(items).timestamp,
            topic     |-> "current_affairs"]>> \o FormatNews(Tail(items))


----------------------------------------------------------------------------
(* What the outside world can answer *)

SeqsUpTo(S, n) == UNION {[1..k -> S] : k \in 0..n}

\* feed entries: one without <title>, one without <description>, one with a blank
\* <description>, and those with a text description and any or no <pubDate>
NoPubDate == [fmt |-> "other", t |-> 0]
FeedEntries ==
    {[has_title |-> FALSE, has_description |-> TRUE, description |-> FeedText,
      has_pub_date |-> FALSE, pub_date |-> NoPubDate],
     [has_title |-> TRUE, has_description |-> FALSE, description |-> "",
      has_pub_date |-> FALSE, pub_date |-> NoPubDate],
     [has_title |-> TRUE, has_description |-> TRUE, description |-> "",
      has_pub_date |-> FALSE, pub_date |-> NoPubDate]}
    \cup {e \in FeedEntry : /\ e.has_title /\ e.has_description
                            /\ e.description = FeedText
                            /\ (~e.has_pub_date => e.pub_date = NoPubDate)}

\* containers of a page, without the fields that do not matter for a container
Articles ==
    {a \in Article : /\ (a.head # "other" => a.has_link /\ a.snippet = "")
                     /\ (a.head = "none" => a.title = ShortTitle)
                     /\ (~a.has_link => a.snippet = "")}

TopicLists ==
    {<<>>, <<"technology">>, <<"weather">>, <<"current_affairs">>,
     <<"current_affairs", "weather">>}

\* the topic lists the preference store holds for the users of the handlers
UserTopicLists == {<<>>, <<"technology">>, <<"current_affairs">>}

----------------------------------------------------------------------------
(* get_latest_news and what it awaits *)

Topic == topics[ti]

\* limit // len(topics), the limit _scrape_topic_news is given
TopicLimit == limit \div Len(topics)

\* how many more tweets, feed entries or containers the next source unit delivers
Room ==
    LET have == Len(all_news) + Len(news_items)
    IN  IF have < MaxItems THEN Min(MaxUnit, MaxItems - have) ELSE 0

Contacting == pc \in {"handles", "feeds", "pages"}

\* source units are <<index of the topic, tier, index in the tier>>
NoUnit == <<0, "none", 0>>
FirstFailure(unit) == IF failed = NoUnit THEN unit ELSE failed

Init ==
    /\ auto_scrape_enabled = FALSE
    /\ pc = "idle"
    /\ caller = "none"
    /\ topics = <<>>
    /\ limit = 0
    /\ ti = 1
    /\ all_news = <<>>
    /\ news_items = <<>>
    /\ handles = <<>>
    /\ feeds = <<>>
    /\ ui = 1
    /\ error_count = 0
    /\ twitter_success = FALSE
    /\ attempted = {}
    /\ failed = NoUnit
    /\ result = <<>>
    /\ outcome = "none"
    /\ finished = "none"
    /\ delivered = <<>>
    /\ voice_path = "unset"
    /\ news_data = <<>>
    /\ language = "english"
    /\ max_length = {}
    /\ summarizer = "None"
    /\ summarizer_calls = 0
    /\ digest = <<>>
    /\ digest_outcome = "none"
    /\ query = <<>>
    /\ keywords = <<>>
    /\ search_results = <<>>
    /\ retry_count = 0
    /\ attempts = 0
    /\ handle_tweets = <<>>
    /\ tweets_returned = <<>>
    /\ prefs = NoRows
    /\ chosen = [u \in Users |-> "none"]
    /\ running = FALSE
    /\ threads = <<>>
    /\ jobs = <<>>
    /\ due = {}
    /\ selected = NoRun
    /\ store_call = NoCall
    /\ contents = <<>>
    /\ combined = 0
    /\ send_users = <<>>
    /\ send_i = 1
    /\ send_log = <<>>
    /\ counted = {}

\* the call get_latest_news(tps, lim) by c: all_news = [], the loop at its head
Call(c, tps, lim) ==
    /\ pc' = "topic"
    /\ caller' = c
    /\ topics' = tps
    /\ limit' = lim
    /\ ti' = 1
    /\ all_news' = <<>>
    /\ news_items' = <<>>
    /\ handles' = <<>>
    /\ feeds' = <<>>
    /\ ui' = 1
    /\ error_count' = 0
    /\ twitter_success' = FALSE
    /\ attempted' = {}
    /\ failed' = NoUnit
    /\ result' = <<>>
    /\ outcome' = "none"
    /\ finished' = "none"
    /\ delivered' = <<>>
    /\ voice_path' = "unset"
    /\ UNCHANGED <<botVars, digestVars, searchVars>>

\* _scrape_topic_news(topic, limit) entered for a topic other than current_affairs
StartTopic ==
    /\ pc = "topic" /\ ti <= Len(topics) /\ Topic # "current_affairs"
    /\ pc' = "handles"
    /\ news_items' = <<>>
    /\ handles' = HandlesFor(Topic)
    /\ feeds' = <<>>
    /\ ui' = 1
    /\ error_count' = 0
    /\ twitter_success' = FALSE
    /\ attempted' = attempted \cup {<<ti, "topic", 0>>}
    /\ UNCHANGED <<deliveryVars, botVars, digestVars, searchVars>>
    /\ UNCHANGED <<auto_scrape_enabled, caller, topics, limit, ti, all_news, failed,
                   result, outcome, finished>>

\* the loop of line 146 left at the first handle that yields nothing
HandleLoopStopsOnError ==
    \/ ui > Len(Take(handles, HandleSlice))
    \/ error_count >= 1

\* the loop of line 146 is over: handles[:3] exhausted or the break of line 149
HandleLoopOver ==
    \/ ui > Len(Take(handles, HandleSlice))
    \/ error_count >= max_retries

\* one iteration of "for handle in handles[:3]": the handle is asked for tweets
FetchHandle ==
    /\ pc = "handles" /\ ~HandleLoopOver
    /\ \E scr \in [raises : BOOLEAN, tweets : SeqsUpTo(RawTweet, Room)] :
         /\ scr.raises => scr.tweets = <<>>
         /\ LET tweets == GetTweets(scr, TopicLimit \div 3) IN
            /\ news_items' = news_items \o TweetItems(tweets, handles[ui], Topic)
            /\ twitter_success' = (twitter_success \/ tweets # <<>>)
            /\ error_count' = IF tweets # <<>> THEN error_count ELSE error_count + 1
            /\ failed' = IF scr.raises THEN FirstFailure(<<ti, "handle", ui>>) ELSE failed
    /\ attempted' = attempted \cup {<<ti, "handle", ui>>}
    /\ ui' = ui + 1
    /\ UNCHANGED <<deliveryVars, botVars, digestVars, searchVars>>
    /\ UNCHANGED <<auto_scrape_enabled, pc, caller, topics, limit, ti, all_news, handles,
                   feeds, result, outcome, finished>>

\* the test of line 176 without its second operand
NeedsFallbackOnFailureOnly == ~twitter_success

\* line 176: the feed fallback is taken
NeedsFallback == ~twitter_success \/ Len(news_items) < TopicLimit

\* the topic's items are returned to get_latest_news, which goes to the next topic
ReturnTopic(topic_news) ==
    /\ all_news' = all_news \o topic_news
    /\ ti' = ti + 1
    /\ pc' = "topic"
    /\ news_items' = <<>>

\* tier 1 was enough: _scrape_topic_news returns without the feeds
HandlesSuffice ==
    /\ pc = "handles" /\ HandleLoopOver /\ ~NeedsFallback
    /\ ReturnTopic(news_items)
    /\ UNCHANGED <<deliveryVars, botVars, digestVars, searchVars>>
    /\ UNCHANGED <<auto_scrape_enabled, caller, topics, limit, handles, feeds, ui,
                   error_count, twitter_success, attempted, failed, result, outcome,
                   finished>>

\* _scrape_rss_feed(topic) entered
StartFeeds ==
    /\ pc = "handles" /\ HandleLoopOver /\ NeedsFallback
    /\ pc' = "feeds"
    /\ feeds' = FeedsFor(Topic)
    /\ ui' = 1
    /\ UNCHANGED <<deliveryVars, botVars, digestVars, searchVars>>
    /\ UNCHANGED <<auto_scrape_enabled, caller, topics, limit, ti, all_news, news_items,
                   handles, error_count, twitter_success, attempted, failed, result,
                   outcome, finished>>

\* one iteration of "for feed_url in feeds": requests.get raises or the feed is parsed
FetchFeed ==
    /\ pc = "feeds" /\ ui <= Len(feeds)
    /\ \/ /\ failed' = FirstFailure(<<ti, "feed", ui>>)
          /\ UNCHANGED news_items
       \/ \E entries \in SeqsUpTo(FeedEntries, Room) :
            /\ news_items' = news_items \o FeedItems(Take(entries, FeedCap), Topic)
            /\ UNCHANGED failed
    /\ attempted' = attempted \cup {<<ti, "feed", ui>>}
    /\ ui' = ui + 1
    /\ UNCHANGED <<deliveryVars, botVars, digestVars, searchVars>>
    /\ UNCHANGED <<auto_scrape_enabled, pc, caller, topics, limit, ti, all_news, handles,
                   feeds, error_count, twitter_success, result, outcome, finished>>

\* _scrape_rss_feed and _scrape_topic_news return
FeedsDone ==
    /\ pc = "feeds" /\ ui > Len(feeds)
    /\ ReturnTopic(news_items)
    /\ UNCHANGED <<deliveryVars, botVars, digestVars, searchVars>>
    /\ UNCHANGED <<auto_scrape_enabled, caller, topics, limit, handles, feeds, ui,
                   error_count, twitter_success, attempted, failed, result, outcome,
                   finished>>

\* scrape_current_affairs(limit) entered, the client session opened
StartCurrentAffairs ==
    /\ pc = "topic" /\ ti <= Len(topics) /\ Topic = "current_affairs"
    /\ pc' = "pages"
    /\ news_items' = <<>>
    /\ ui' = 1
    /\ attempted' = attempted \cup {<<ti, "topic", 0>>}
    /\ counted' = {}
    /\ UNCHANGED <<deliveryVars, retryVars, chatVars, schedulerVars, directVars,
                   digestVars, searchVars>>
    /\ UNCHANGED <<auto_scrape_enabled, caller, topics, limit, ti, all_news, handles,
                   feeds, error_count, twitter_success, failed, result, outcome,
                   finished>>

\* scrape_current_affairs raises before its loop (import aiohttp, ClientSession()):
\* the except of line 104 logs it and the loop goes to the next topic
CurrentAffairsRaises ==
    /\ pc = "topic" /\ ti <= Len(topics) /\ Topic = "current_affairs"
    /\ failed' = FirstFailure(<<ti, "topic", 0>>)
    /\ attempted' = attempted \cup {<<ti, "topic", 0>>}
    /\ ReturnTopic(<<>>)
    /\ UNCHANGED <<deliveryVars, botVars, digestVars, searchVars>>
    /\ UNCHANGED <<auto_scrape_enabled, caller, topics, limit, handles, feeds, ui,
                   error_count, twitter_success, result, outcome, finished>>

\* one iteration of "for source_url in current_affairs_sources"
FetchPage ==
    /\ pc = "pages" /\ ui <= Len(current_affairs_sources)
    /\ \/ /\ failed' = FirstFailure(<<ti, "page", ui>>)
          /\ UNCHANGED <<news_items, counted>>
       \/ \E articles \in SeqsUpTo(Articles, Room) :
            /\ news_items' = PageLoop(articles, 1, <<>>, news_items,
                                      current_affairs_sources[ui], TopicLimit)
            /\ counted' = counted \cup PageHeadlines(articles, 1, <<>>, news_items,
                                                     TopicLimit)
            /\ UNCHANGED failed
    /\ attempted' = attempted \cup {<<ti, "page", ui>>}
    /\ ui' = ui + 1
    /\ UNCHANGED <<deliveryVars, retryVars, chatVars, schedulerVars, directVars,
                   digestVars, searchVars>>
    /\ UNCHANGED <<auto_scrape_enabled, pc, caller, topics, limit, ti, all_news, handles,
                   feeds, error_count, twitter_success, result, outcome, finished>>

\* scrape_current_affairs returns formatted_news
PagesDone ==
    /\ pc = "pages" /\ ui > Len(current_affairs_sources)
    /\ ReturnTopic(FormatNews(Take(news_items, TopicLimit)))
    /\ counted' = {}
    /\ UNCHANGED <<deliveryVars, retryVars, chatVars, schedulerVars, directVars,
                   digestVars, searchVars>>
    /\ UNCHANGED <<auto_scrape_enabled, caller, topics, limit, handles, feeds, ui,
                   error_count, twitter_success, attempted, failed, result, outcome,
                   finished>>

\* the return without the cut
TruncateMissing(sorted, lim) == sorted

\* all_news[:limit] after the sort
Truncate(sorted, lim) == Take(sorted, lim)

\* lines 108-110: all_news.sort(...) raises or the sorted list is cut and returned
\* (all_news keeps the items in the order they were collected in, result holds
\* the sorted list)
SortAndReturn ==
    /\ pc = "topic" /\ ti > Len(topics)
    /\ pc' = "done"
    /\ IF SortRaises(all_news)
       THEN outcome' = "raised" /\ result' = <<>>
       ELSE outcome' = "returned" /\ result' = Truncate(SortDesc(all_news), limit)
    /\ UNCHANGED <<deliveryVars, botVars, digestVars, searchVars>>
    /\ UNCHANGED <<auto_scrape_enabled, caller, topics, limit, ti, all_news, news_items,
                   handles, feeds, ui, error_count, twitter_success, attempted, failed,
                   finished>>


----------------------------------------------------------------------------
(* The callers of get_latest_news *)

\* the handler or call in flight ends; the locals of the call are gone
Finish(how) ==
    /\ pc' = "idle"
    /\ caller' = "none"
    /\ finished' = how
    /\ topics' = <<>>
    /\ limit' = 0
    /\ ti' = 1
    /\ all_news' = <<>>
    /\ news_items' = <<>>
    /\ handles' = <<>>
    /\ feeds' = <<>>
    /\ ui' = 1
    /\ error_count' = 0
    /\ twitter_success' = FALSE
    /\ attempted' = {}
    /\ failed' = NoUnit
    /\ result' = <<>>
    /\ outcome' = "none"
    /\ UNCHANGED <<botVars, digestVars, searchVars>>

\* NewsScraper.set_auto_scrape(enabled)
set_auto_scrape(enabled) == auto_scrape_enabled' = enabled

\* a direct call get_latest_news(topics, limit)
ApiCall ==
    /\ pc = "idle"
    /\ \E tps \in TopicLists, lim \in 0..MaxLimit : Call("api", tps, lim)
    /\ UNCHANGED auto_scrape_enabled

\* the direct call returns or raises to its caller
ApiDone ==
    /\ pc = "done" /\ caller = "api"
    /\ Finish(IF outcome = "raised" THEN "api_raised" ELSE "api_returned")
    /\ UNCHANGED <<auto_scrape_enabled, deliveryVars>>

\* the parameters of create_news_digest besides self
create_news_digest_params == {"news_data", "language"}

\* binding the arguments of a call: a keyword the function does not have raises
\* TypeError before the body runs
BindRaises(params, kwargs) == ~(kwargs \subseteq params)

\* the guard without its first operand
VoicePathUnchecked(vp) == TRUE

\* "if voice_path and ...": None is false, a path is true
VoicePathTruthy(vp) == vp # "None"

\* the names scheduler.py imports
scheduler_imports ==
    {"asyncio", "logging", "schedule", "time", "datetime", "timedelta",
     "TYPE_CHECKING", "threading"}

\* send_personalized_news, lines 472-486: the two replies are sent, the preferences
\* read, the flag enabled and get_latest_news(topics, limit=15) awaited
NewsCommand ==
    /\ pc = "idle"
    /\ set_auto_scrape(TRUE)
    /\ \E tps \in UserTopicLists : Call("news", tps, NewsLimit)

\* send_personalized_news, lines 472-475 raise: the outer except of line 516 replies
\* and the handler ends before the flag was touched
NewsCommandFails ==
    /\ pc = "idle"
    /\ Finish("news_setup_error")
    /\ delivered' = <<>>
    /\ voice_path' = "unset"
    /\ UNCHANGED auto_scrape_enabled

\* send_personalized_news, lines 489-514: get_latest_news returned; the flag is
\* disabled first.  With no news the handler replies so and returns.  Otherwise
\* create_news_digest(news_data, language, max_length=200) is called: when the
\* call raises, the except of line 510 replies and disables the flag again; when
\* it returns, the digest is sent, then generate_voice_note is awaited and the
\* voice note, if there is one, is sent.  A reply that raises ends in the excepts.
NewsFetched ==
    /\ pc = "done" /\ caller = "news" /\ outcome = "returned"
    /\ set_auto_scrape(FALSE)
    /\ LET digest_raises == BindRaises(create_news_digest_params, {"max_length"}) IN
       \E how \in {"news_none", "news_digest_error", "news_sent", "news_send_error"},
          vp \in {"unset", "None", "path"} :
         /\ (how = "news_none") => (result = <<>> /\ vp = "unset")
         /\ (how = "news_digest_error") => (result # <<>> /\ digest_raises /\ vp = "unset")
         /\ (how = "news_sent") => (result # <<>> /\ ~digest_raises /\ vp # "unset")
         /\ (how = "news_send_error") => (result = <<>> \/ digest_raises) /\ vp = "unset"
         /\ voice_path' = vp
         /\ delivered' = IF how # "news_sent" THEN <<>>
                         ELSE IF VoicePathTruthy(vp) THEN <<"digest", "voice">>
                         ELSE <<"digest">>
         /\ Finish(how)

\* send_personalized_news, lines 510-514: get_latest_news raised; the except block
\* replies and then disables the flag
NewsFetchFailed ==
    /\ pc = "done" /\ caller = "news" /\ outcome = "raised"
    /\ set_auto_scrape(FALSE)
    /\ Finish("news_fetch_error")
    /\ UNCHANGED deliveryVars

\* send_personalized_news, lines 510-518: get_latest_news raised and the reply of
\* line 512 raises too: line 514 is not reached, the outer except of line 516 ends
\* the handler
NewsFetchFailedReplyRaises ==
    /\ pc = "done" /\ caller = "news" /\ outcome = "raised"
    /\ Finish("news_reply_error")
    /\ UNCHANGED <<auto_scrape_enabled, deliveryVars>>

\* _send_scheduled_news, lines 90-100: the preferences are read and
\* get_latest_news(topics, limit=15 or 8) awaited
ScheduledNews ==
    /\ pc = "idle"
    /\ \E tps \in UserTopicLists, lim \in {WeeklyLimit, ScheduledLimit} :
         Call("sched", tps, lim)
    /\ UNCHANGED auto_scrape_enabled

\* _send_scheduled_news, lines 102-103 and 142-143: there is nothing to send, or
\* get_latest_news raised and the except of line 142 logs it
ScheduledDone ==
    /\ pc = "done" /\ caller = "sched"
    /\ outcome = "raised" \/ result = <<>>
    /\ Finish(IF outcome = "raised" THEN "sched_error" ELSE "sched_none")
    /\ UNCHANGED <<auto_scrape_enabled, deliveryVars>>

\* _send_scheduled_news, lines 105-127: the greeting is chosen, the digest made by
\* create_news_digest(news_data, language) and the text sent with send_message;
\* when one of them raises the except of line 142 logs it
ScheduledSendText ==
    /\ pc = "done" /\ caller = "sched" /\ outcome = "returned" /\ result # <<>>
    /\ \/ /\ ~BindRaises(create_news_digest_params, {})
          /\ pc' = "voice"
          /\ delivered' = Append(delivered, "digest")
          /\ UNCHANGED <<caller, topics, limit, ti, all_news, news_items, handles,
                         feeds, ui, error_count, twitter_success, attempted, failed,
                         result, outcome, finished, voice_path, botVars,
                         digestVars, searchVars>>
       \/ /\ Finish("sched_error")
          /\ UNCHANGED deliveryVars
    /\ UNCHANGED auto_scrape_enabled

\* _send_scheduled_news, lines 129-143: generate_voice_note returns None or a
\* path.  None: the guard of line 131 is false and the handler logs and returns.
\* A path: the guard goes on to os.path.exists, and os is not a name of
\* scheduler.py: NameError, logged by the except of line 142 (with os imported
\* the voice note would be sent).
ScheduledVoice ==
    /\ pc = "voice" /\ caller = "sched"
    /\ \E vp \in {"None", "path"} :
         /\ voice_path' = vp
         /\ IF ~VoicePathTruthy(vp)
            THEN Finish("sched_sent") /\ UNCHANGED delivered
            ELSE IF "os" \in scheduler_imports
                 THEN Finish("sched_sent") /\ delivered' = Append(delivered, "voice")
                 ELSE Finish("sched_error") /\ UNCHANGED delivered
    /\ UNCHANGED auto_scrape_enabled

\* the steps of get_latest_news
FetchStep ==
    \/ StartTopic
    \/ FetchHandle
    \/ HandlesSuffice
    \/ StartFeeds
    \/ FetchFeed
    \/ FeedsDone
    \/ StartCurrentAffairs
    \/ CurrentAffairsRaises
    \/ FetchPage
    \/ PagesDone
    \/ SortAndReturn

\* the bot: /news requests, scheduled deliveries and direct calls of the fetcher
Next ==
    \/ NewsCommand
    \/ NewsCommandFails
    \/ NewsFetched
    \/ NewsFetchFailed
    \/ NewsFetchFailedReplyRaises
    \/ ScheduledNews
    \/ ScheduledDone
    \/ ScheduledSendText
    \/ ScheduledVoice
    \/ ApiCall
    \/ ApiDone
    \/ FetchStep

Spec == Init /\ [][Next]_vars

\* the fetcher alone, called directly with any topic list and limit
NextFetch ==
    \/ ApiCall
    \/ ApiDone
    \/ FetchStep

SpecFetch == Init /\ [][NextFetch]_vars

----------------------------------------------------------------------------
(* Digest synthesizer (news_summarizer.py).  The strings being ASCII, emoji *)
(* are written by their names and Hindi phrases in Latin transliteration    *)
(* with "(hi) " before them, which keeps them different from the Hinglish  *)
(* ones as the Devanagari strings are.                                      *)

\* Python's None as the value of an item's field (no text below is this string)
None == "None"

\* languages a call can name; the tables have no entry for the last one
Languages == {"hindi", "english", "hinglish", "tamil"}

casual_intros ==
    [hindi    |-> <<"(hi) Are bhai, aaj ki khabar suno -",
                    "(hi) Bhai pata hai aaj kya hua?",
                    "(hi) Suno bhai, ye hua hai aaj -",
                    "(hi) Are yaar, aaj ki badi khabar ye hai -">>,
     english  |-> <<"Hey bro, here's what happened today -",
                    "Bhai, you know what's going on?",
                    "Listen up, here's the latest -",
                    "Yo, big news today -">>,
     hinglish |-> <<"Arre bhai, aaj ki news sun -",
                    "Bhai pata hai aaj kya hua?",
                    "Sun yaar, aaj ka update -",
                    "Arre, aaj ki badi news ye hai -">>]

casual_connectors ==
    [hindi    |-> <<"(hi) Aur phir", "(hi) Iske baad", "(hi) Ab baat ye hai",
                    "(hi) Aur suno">>,
     english  |-> <<"And then", "Also", "Plus", "Oh and">>,
     hinglish |-> <<"Aur phir", "Aur sun", "Plus yaar", "Arre aur">>]

\* _get_casual_ending: endings
endings ==
    [hindi    |-> <<"(hi) Bas yahi tha aaj ka update! :thumbsup:",
                    "(hi) Aur kuch chahiye to batana bhai! :smile:",
                    "(hi) Ho gaya aaj ka news! :newspaper:">>,
     english  |-> <<"That's your update for today! :thumbsup:",
                    "Let me know if you need anything else, bro! :smile:",
                    "That's all for now! :newspaper:">>,
     hinglish |-> <<"Bass yahi tha aaj ka update! :thumbsup:",
                    "Aur kuch chahiye toh batana bhai! :smile:",
                    "Ho gaya aaj ka news! :newspaper:">>]

\* _get_no_news_message: messages
messages ==
    [hindi    |-> "(hi) Are bhai, abhi koi khaas khabar nahi mili. Thodi der baad try karna! :sweat_smile:",
     english  |-> "Hey bro, couldn't find any news right now. Try again later! :sweat_smile:",
     hinglish |-> "Arre bhai, abhi koi khaas news nahi mili. Thodi der baad try karna! :sweat_smile:"]

\* _get_topic_info: topic_map
topic_map ==
    [politics      |-> [emoji |-> ":classical_building:", hindi |-> "(hi) Rajneeti",
                        english |-> "Politics", hinglish |-> "Politics"],
     technology    |-> [emoji |-> ":computer:", hindi |-> "(hi) Takneek",
                        english |-> "Technology", hinglish |-> "Technology"],
     sports        |-> [emoji |-> ":soccer:", hindi |-> "(hi) Khel",
                        english |-> "Sports", hinglish |-> "Sports"],
     finance       |-> [emoji |-> ":moneybag:", hindi |-> "(hi) Vitt",
                        english |-> "Finance", hinglish |-> "Finance"],
     entertainment |-> [emoji |-> ":clapper:", hindi |-> "(hi) Manoranjan",
                        english |-> "Entertainment", hinglish |-> "Entertainment"],
     health        |-> [emoji |-> ":hospital:", hindi |-> "(hi) Swasthya",
                        english |-> "Health", hinglish |-> "Health"],
     international |-> [emoji |-> ":earth_africa:", hindi |-> "(hi) Antarrashtriya",
                        english |-> "International", hinglish |-> "International"],
     business      |-> [emoji |-> ":office:", hindi |-> "(hi) Vyapar",
                        english |-> "Business", hinglish |-> "Business"],
     general       |-> [emoji |-> ":newspaper:", hindi |-> "(hi) Samanya",
                        english |-> "General", hinglish |-> "General"]]

\* self.casual_intros.get(language, self.casual_intros['english'])
IntrosFor(lang) == DictGet(casual_intros, lang, casual_intros["english"])

\* self.casual_connectors.get(language, self.casual_connectors['english'])
ConnectorsFor(lang) == DictGet(casual_connectors, lang, casual_connectors["english"])

\* endings.get(language, endings['english'])
EndingsFor(lang) == DictGet(endings, lang, endings["english"])

\* the message table read without the language
NoNewsMessageEnglishOnly(lang) == messages["english"]

\* _get_no_news_message
GetNoNewsMessage(lang) == DictGet(messages, lang, messages["english"])

\* _get_topic_info
GetTopicInfo(topic, lang) ==
    LET info == DictGet(topic_map, topic, topic_map["general"])
    IN  [emoji |-> info.emoji, name |-> DictGet(info, lang, info.english)]

\* sep.join(strings)
RECURSIVE JoinWith(_, _)
JoinWith(strings, sep) ==
    IF strings = <<>> THEN ""
    ELSE IF Len(strings) = 1 THEN strings[1]
    ELSE strings[1] \o sep \o JoinWith(Tail(strings), sep)

LongContent ==
    "The state government said on Monday that the new metro line will open to the public next month after final safety checks"

PrepareCap == 5         \* news_data[:5]
SubstantialLen == 50    \* len(clean_content) > 50
SummarizeMinLen == 100  \* len(topic_content) > 100
FallbackCap == 3        \* news_data[:3]
DigestBudget == 200     \* max_length=200

\* the contents of the items that _prepare_text_for_summarization keeps (the texts
\* hold no URL, mention, hashtag or run of blanks, so cleaning leaves them as
\* they are)
RECURSIVE SubstantialContents(_)
SubstantialContents(items) ==
    IF items = <<>> THEN <<>>
    ELSE IF Len(Head(items).content) > SubstantialLen
         THEN <<Head(items).content>> \o SubstantialContents(Tail(items))
         ELSE SubstantialContents(Tail(items))

\* _prepare_text_for_summarization: re.sub raises TypeError on a content that is
\* None; else the kept contents are joined by blanks (the joined text of five of
\* the texts here stays under the 1000 characters at which it would be cut)
PrepareText(items) ==
    LET firsts == Take(items, PrepareCap) IN
    IF \E i \in 1..Len(firsts) : firsts[i].content = None
    THEN [raises |-> TRUE, text |-> ""]
    ELSE [raises |-> FALSE, text |-> JoinWith(SubstantialContents(firsts), " ")]

\* what the summarization pipeline returns when it does not raise
AiSummary == "Metro line to open next month."

\* LongContent[:100]
LongContentHead ==
    "The state government said on Monday that the new metro line will open to the public next month after"

\* content[:100] for the texts of this model
Slice100(content) == IF content = LongContent THEN LongContentHead ELSE content

\* items[0].get('title', items[0].get('content', '')[:100]): the default is
\* evaluated first and slicing None raises; the default is the result only when
\* the item has no key 'title'
LeadTitle(item) ==
    IF item.content = None THEN [raises |-> TRUE, text |-> ""]
    ELSE [raises |-> FALSE, text |-> DictGet(item, "title", Slice100(item.content))]

\* _summarize_topic_group(items, language, topic) for a non-empty group;
\* pipeline_fails says whether the call of self.summarizer raises, if it is made
SummarizeTopicGroup(items, lang, topic, pipeline, pipeline_fails) ==
    LET topic_info == GetTopicInfo(topic, lang)
        prep == PrepareText(items)
        called == ~prep.raises /\ pipeline # "None" /\ Len(prep.text) > SummarizeMinLen
        lead == LeadTitle(items[1])
        Block(topic_summary) ==
            topic_info.emoji \o " **" \o topic_info.name \o "**: " \o topic_summary
    IN  IF prep.raises THEN [raises |-> TRUE, text |-> "", calls |-> 0]
        ELSE IF called /\ ~pipeline_fails
        THEN [raises |-> FALSE, text |-> Block(AiSummary), calls |-> 1]
        ELSE IF lead.raises
        THEN [raises |-> TRUE, text |-> "", calls |-> IF called THEN 1 ELSE 0]
        ELSE [raises |-> FALSE, text |-> Block(lead.text),
              calls |-> IF called THEN 1 ELSE 0]

\* _group_by_topics, line 235: item.get('topic', 'general')
GroupKey(item) == DictGet(item, "topic", "general")

\* a grouping that puts the topic met last in front
RECURSIVE TopicOrderNewestFirst(_, _)
TopicOrderNewestFirst(items, seen) ==
    IF items = <<>> THEN seen
    ELSE IF \E k \in 1..Len(seen) : seen[k] = GroupKey(Head(items))
         THEN TopicOrderNewestFirst(Tail(items), seen)
         ELSE TopicOrderNewestFirst(Tail(items), <<GroupKey(Head(items))>> \o seen)

\* _group_by_topics: the keys of the dict, in the order of their insertion
RECURSIVE TopicOrder(_, _)
TopicOrder(items, seen) ==
    IF items = <<>> THEN seen
    ELSE IF \E k \in 1..Len(seen) : seen[k] = GroupKey(Head(items))
         THEN TopicOrder(Tail(items), seen)
         ELSE TopicOrder(Tail(items), Append(seen, GroupKey(Head(items))))

\* _group_by_topics: the list under one key, each item appended as it is met
RECURSIVE GroupOf(_, _)
GroupOf(items, topic) ==
    IF items = <<>> THEN <<>>
    ELSE IF GroupKey(Head(items)) = topic
         THEN <<Head(items)>> \o GroupOf(Tail(items), topic)
         ELSE GroupOf(Tail(items), topic)

\* the for loop of create_news_digest over the groups, from the k-th on; fails[k]
\* says whether the pipeline raises when called for the k-th group
RECURSIVE DigestLoop(_, _, _, _, _, _, _)
DigestLoop(items, order, k, lang, pipeline, fails, acc) ==
    IF k > Len(order) THEN acc
    ELSE LET g == SummarizeTopicGroup(GroupOf(items, order[k]), lang, order[k],
                                      pipeline, fails[k])
         IN  IF g.raises
             THEN [raises |-> TRUE, parts |-> acc.parts, calls |-> acc.calls + g.calls]
             ELSE DigestLoop(items, order, k + 1, lang, pipeline, fails,
                             [raises |-> FALSE,
                              parts  |-> IF g.text # "" THEN Append(acc.parts, g.text)
                                         ELSE acc.parts,
                              calls  |-> acc.calls + g.calls])

\* the for loop of _generate_fallback_summary: the title when it is not empty,
\* else the first sentence of the content (the texts here hold no '.', so that is
\* the content), and content.split raises AttributeError on None
RECURSIVE FallbackLines(_)
FallbackLines(items) ==
    IF items = <<>> THEN [raises |-> FALSE, lines |-> <<>>]
    ELSE LET item == Head(items)
             rest == FallbackLines(Tail(items))
         IN  IF item.title = "" /\ item.content = None
             THEN [raises |-> TRUE, lines |-> <<>>]
             ELSE IF rest.raises THEN rest
             ELSE [raises |-> FALSE,
                   lines  |-> <<IF item.title # "" THEN item.title ELSE item.content>>
                              \o rest.lines]

\* _generate_fallback_summary: f"{intro}\n\n" + f"\n\n{connector} ".join(summaries),
\* as the parts that "\n\n" separates
GenerateFallbackSummary(items, lang, intro, connector) ==
    LET fl == FallbackLines(Take(items, FallbackCap))
    IN  IF fl.raises THEN [raises |-> TRUE, parts |-> <<>>]
        ELSE [raises |-> FALSE,
              parts  |-> <<intro>> \o
                         [i \in 1..Len(fl.lines) |->
                            IF i = 1 THEN fl.lines[i]
                            ELSE connector \o " " \o fl.lines[i]]]

\* the random.choice calls of one synthesis
RandomChoices ==
    [intro : 1..4, ending : 1..3, connector : 1..4, fallback_intro : 1..4]

\* create_news_digest(news_data, language) on an instance whose summarizer is
\* pipeline: [outcome, parts of the text, calls of the pipeline]
CreateNewsDigest(items, lang, pipeline, fails, rnd) ==
    IF items = <<>>
    THEN [outcome |-> "returned", parts |-> <<GetNoNewsMessage(lang)>>, calls |-> 0]
    ELSE
      LET loop == DigestLoop(items, TopicOrder(items, <<>>), 1, lang, pipeline, fails,
                             [raises |-> FALSE, parts |-> <<IntrosFor(lang)[rnd.intro]>>,
                              calls |-> 0])
          fb == GenerateFallbackSummary(items, lang, IntrosFor(lang)[rnd.fallback_intro],
                                        ConnectorsFor(lang)[rnd.connector])
      IN  IF ~loop.raises
          THEN [outcome |-> "returned",
                parts   |-> Append(loop.parts, EndingsFor(lang)[rnd.ending]),
                calls   |-> loop.calls]
          ELSE IF fb.raises                      \* the call of line 142 raises
          THEN [outcome |-> "raised", parts |-> <<>>, calls |-> loop.calls]
          ELSE [outcome |-> "returned", parts |-> fb.parts, calls |-> loop.calls]

\* _make_casual: the phrase that echoes the query
ContextPhrase(lang, q) ==
    IF lang = "hindi" THEN "(hi) Tumne poocha tha '" \o q \o "' ke baare mein, to suno -"
    ELSE IF lang = "hinglish" THEN "Tumne pucha tha '" \o q \o "' ke baare mein, toh sun -"
    ELSE "You asked about '" \o q \o "', so here's what I found -"

\* summarize_news(news_data, language, query); _generate_ai_summary returns the
\* pipeline's summary, or when the pipeline raises the first three sentences of
\* the text and a '.' (the texts here hold no '.', so that is the text and a '.')
SummarizeNews(items, lang, q, pipeline, fails, rnd) ==
    IF items = <<>>
    THEN [outcome |-> "returned", parts |-> <<GetNoNewsMessage(lang)>>, calls |-> 0]
    ELSE
      LET prep == PrepareText(items)
          fb == GenerateFallbackSummary(items, lang, IntrosFor(lang)[rnd.fallback_intro],
                                        ConnectorsFor(lang)[rnd.connector])
          called == ~prep.raises /\ pipeline # "None"
          summary == IF pipeline = "None" THEN fb.parts
                     ELSE IF fails[1] THEN <<prep.text \o ".">>
                     ELSE <<AiSummary>>
          intro == IF q # "" THEN ContextPhrase(lang, q) ELSE IntrosFor(lang)[rnd.intro]
          calls == IF called THEN 1 ELSE 0
      IN  IF ~prep.raises /\ ~(pipeline = "None" /\ fb.raises)
          THEN [outcome |-> "returned",
                parts   |-> <<intro>> \o summary \o <<EndingsFor(lang)[rnd.ending]>>,
                calls   |-> calls]
          ELSE IF fb.raises                      \* the call of line 113 raises
          THEN [outcome |-> "raised", parts |-> <<>>, calls |-> calls]
          ELSE [outcome |-> "returned", parts |-> fb.parts, calls |-> calls]

\* the items a synthesis is given: a short and a long content, an empty title
\* on an item without the key 'topic', and items whose content is None, with
\* and without a title
DigestItems ==
    {[title |-> LongTitle1, content |-> FeedText,    topic |-> "current_affairs"],
     [title |-> LongTitle2, content |-> LongContent, topic |-> "sports"],
     [title |-> "",         content |-> FeedText],
     [title |-> LongTitle1, content |-> None,        topic |-> "technology"],
     [title |-> "",         content |-> None,        topic |-> "general"]}

DigestLists == SeqsUpTo(DigestItems, MaxDigestItems)

\* the queries summarize_news is given
SummaryQueries == {"", "cricket today"}

\* the keywords a call passes besides news_data and language
PassedKeywords == IF max_length = {} THEN {} ELSE {"max_length"}

\* a synthesis is called on an instance whose summarizer _load_models left as the
\* pipeline or as None
SynthesisCall(position) ==
    /\ pc = "idle"
    /\ pc' = position
    /\ \E items \in DigestLists, lang \in Languages, pl \in {"None", "pipeline"} :
         /\ news_data' = items
         /\ language' = lang
         /\ summarizer' = pl
    /\ summarizer_calls' = 0
    /\ digest' = <<>>
    /\ digest_outcome' = "none"
    /\ UNCHANGED <<auto_scrape_enabled, caller, topics, limit, ti, all_news, news_items,
                   handles, feeds, ui, error_count, twitter_success, attempted, failed,
                   result, outcome, finished, botVars, deliveryVars, keywords, search_results>>

\* what a synthesis leaves when it ends
SynthesisEnds(position, r) ==
    /\ pc' = position
    /\ digest_outcome' = r.outcome
    /\ digest' = r.parts
    /\ summarizer_calls' = r.calls
    /\ UNCHANGED <<auto_scrape_enabled, caller, topics, limit, ti, all_news, news_items,
                   handles, feeds, ui, error_count, twitter_success, attempted, failed,
                   result, outcome, finished, botVars, deliveryVars, searchVars, news_data,
                   language, max_length, summarizer>>

\* a call create_news_digest(news_data, language) or
\* create_news_digest(news_data, language, max_length=N)
CreateNewsDigestCall ==
    /\ SynthesisCall("digest")
    /\ max_length' \in {{}, {DigestBudget}}
    /\ UNCHANGED query

\* the call is bound and the body of create_news_digest runs
CreateNewsDigestBody ==
    /\ pc = "digest"
    /\ IF BindRaises(create_news_digest_params, PassedKeywords)
       THEN SynthesisEnds("digested", [outcome |-> "raised", parts |-> <<>>, calls |-> 0])
       ELSE \E rnd \in RandomChoices, fails \in [1..MaxDigestItems -> BOOLEAN] :
              SynthesisEnds("digested",
                            CreateNewsDigest(news_data, language, summarizer, fails, rnd))

\* a call summarize_news(news_data, language, query)
SummarizeNewsCall ==
    /\ SynthesisCall("summarize")
    /\ max_length' = {}
    /\ \E q \in SummaryQueries : query' = <<q>>

\* the body of summarize_news runs
SummarizeNewsBody ==
    /\ pc = "summarize"
    /\ \E rnd \in RandomChoices, fails \in [1..MaxDigestItems -> BOOLEAN] :
         SynthesisEnds("summarized",
                       SummarizeNews(news_data, language, query[1], summarizer, fails, rnd))

\* the synthesis returns or raises to its caller
SynthesisReturn ==
    /\ pc \in {"digested", "summarized"}
    /\ pc' = "idle"
    /\ news_data' = <<>>
    /\ language' = "english"
    /\ max_length' = {}
    /\ summarizer' = "None"
    /\ summarizer_calls' = 0
    /\ digest' = <<>>
    /\ digest_outcome' = "none"
    /\ query' = <<>>
    /\ UNCHANGED <<auto_scrape_enabled, caller, topics, limit, ti, all_news, news_items,
                   handles, feeds, ui, error_count, twitter_success, attempted, failed,
                   result, outcome, finished, botVars, deliveryVars, keywords, search_results>>

\* the synthesizer alone, called directly
NextDigest ==
    \/ CreateNewsDigestCall
    \/ CreateNewsDigestBody
    \/ SummarizeNewsCall
    \/ SummarizeNewsBody
    \/ SynthesisReturn

SpecDigest == Init /\ [][NextDigest]_vars

----------------------------------------------------------------------------
(* Keyword search (news_scraper.py): _extract_keywords, search_news and what *)
(* it calls.  A query is the sequence of the words \b\w+\b finds in it.      *)

stop_words ==
    {"what", "how", "when", "where", "why", "who", "is", "are", "was", "were", "the",
     "a", "an", "and", "or", "but", "in", "on", "at", "to", "for", "of", "with", "by",
     "about", "kya", "hai", "hua", "bhai", "news", "update"}

KeywordCap == 5        \* keywords[:5]
KeywordMinLen == 2     \* len(word) > 2
SearchHandleSlice == 2 \* handles[:2]
SearchDayWindow == 3   \* timedelta(days=3)

\* the words a query is made of
QueryWords == {"what", "happened", "in", "cricket", "today", "Cricket", "ok"}

\* str.lower() of a word
Lower(word) == IF word = "Cricket" THEN "cricket" ELSE word

\* the test of the list comprehension without the length
KeepAnyLength(word) == word \notin stop_words

\* word not in stop_words and len(word) > 2
KeepWord(word) == word \notin stop_words /\ Len(word) > KeywordMinLen

\* _extract_keywords
ExtractKeywords(q) ==
    LET words == [i \in 1..Len(q) |-> Lower(q[i])]
    IN  Take(SelectSeq(words, KeepWord), KeywordCap)

\* the user types one more word of the query
TypeWord ==
    /\ pc = "idle" /\ Len(query) < MaxQueryLen
    /\ \E w \in QueryWords : query' = Append(query, w)
    /\ UNCHANGED <<auto_scrape_enabled, pc, caller, topics, limit, ti, all_news,
                   news_items, handles, feeds, ui, error_count, twitter_success,
                   attempted, failed, result, outcome, finished, botVars, deliveryVars,
                   digestVars, keywords, search_results>>

\* _extract_keywords(query) is called and returns
ExtractKeywordsCall ==
    /\ pc = "idle"
    /\ pc' = "keywords"
    /\ keywords' = ExtractKeywords(query)
    /\ UNCHANGED <<auto_scrape_enabled, caller, topics, limit, ti, all_news,
                   news_items, handles, feeds, ui, error_count, twitter_success,
                   attempted, failed, result, outcome, finished, botVars, deliveryVars,
                   digestVars, query, search_results>>

\* the caller is done with the keywords; the next query starts empty
KeywordsReturn ==
    /\ pc = "keywords"
    /\ pc' = "idle"
    /\ query' = <<>>
    /\ keywords' = <<>>
    /\ UNCHANGED <<auto_scrape_enabled, caller, topics, limit, ti, all_news,
                   news_items, handles, feeds, ui, error_count, twitter_success,
                   attempted, failed, result, outcome, finished, botVars, deliveryVars,
                   digestVars, search_results>>

\* keyword extraction alone, on every query of up to MaxQueryLen words
NextKeywords ==
    \/ TypeWord
    \/ ExtractKeywordsCall
    \/ KeywordsReturn

SpecKeywords == Init /\ [][NextKeywords]_vars

SearchText1 == "India won the cricket series today"
SearchText2 == "Cricketers protest over pay"

SearchTexts == {SearchText1, SearchText2}

\* keyword in content_lower
Contains(content, keyword) ==
    \/ content = SearchText1 /\ keyword \in {"cricket", "today"}
    \/ content = SearchText2 /\ keyword \in {"cricket"}
    \/ content = NewsTweetText /\ keyword \in {"today"}

\* f' {keyword} ' in f' {content_lower} '
WholeWord(content, keyword) ==
    \/ content = SearchText1 /\ keyword \in {"cricket", "today"}
    \/ content = NewsTweetText /\ keyword \in {"today"}

\* a sum without the bonus for a whole word
RECURSIVE MatchHalvesNoBonus(_, _)
MatchHalvesNoBonus(content, kws) ==
    IF kws = <<>> THEN 0
    ELSE (IF Contains(content, Head(kws)) THEN 2 ELSE 0)
         + MatchHalvesNoBonus(content, Tail(kws))

\* the sum _calculate_relevance builds, in halves: 1 for a keyword found and 0.5
\* more for one found as a whole word
RECURSIVE MatchHalves(_, _)
MatchHalves(content, kws) ==
    IF kws = <<>> THEN 0
    ELSE (IF Contains(content, Head(kws))
          THEN 2 + (IF WholeWord(content, Head(kws)) THEN 1 ELSE 0)
          ELSE 0) + MatchHalves(content, Tail(kws))

\* _calculate_relevance: score / len(keywords), or 0 without keywords; the
\* fraction is num / den
CalculateRelevance(content, kws) ==
    IF kws = <<>> THEN [num |-> 0, den |-> 1]
    ELSE [num |-> MatchHalves(content, kws), den |-> 2 * Len(kws)]

\* a >= b and a = b on scores
ScoreGreater(a, b) == a.num * b.den > b.num * a.den
ScoreEqual(a, b) == a.num * b.den = b.num * a.den

\* the sort key without the timestamp
RankByScoreOnly(x, y) ==
    \/ ScoreGreater(x.relevance_score, y.relevance_score)
    \/ ScoreEqual(x.relevance_score, y.relevance_score)

\* key(x) >= key(y) for key = (relevance_score, timestamp)
RankKeyGreaterEq(x, y) ==
    \/ ScoreGreater(x.relevance_score, y.relevance_score)
    \/ /\ ScoreEqual(x.relevance_score, y.relevance_score)
       /\ x.timestamp.t >= y.timestamp.t

\* results.sort(key=..., reverse=True): stable, descending
RECURSIVE InsertRanked(_, _)
InsertRanked(sorted, x) ==
    IF sorted = <<>> THEN <<x>>
    ELSE IF RankKeyGreaterEq(Head(sorted), x)
         THEN <<Head(sorted)>> \o InsertRanked(Tail(sorted), x)
         ELSE <<x>> \o sorted

\* _rank_by_relevance: every result has its relevance_score already
RECURSIVE RankByRelevance(_)
RankByRelevance(results) ==
    IF results = <<>> THEN <<>>
    ELSE InsertRanked(RankByRelevance(SubSeq(results, 1, Len(results) - 1)),
                      results[Len(results)])

\* the tuples compare timestamps when the scores are equal, and that raises when
\* one is aware and the other naive
RankRaises(results) ==
    \E i, j \in 1..Len(results) :
        /\ ScoreEqual(results[i].relevance_score, results[j].relevance_score)
        /\ CompareRaises(results[i].timestamp, results[j].timestamp)

SearchTweet == [content : SearchTexts, date : [t : Times, aware : BOOLEAN]]

\* the for loop of _search_topic_with_keywords over the tweets of one handle, from
\* the i-th on: the results appended.  The comparison of line 266 raises on an
\* aware date; the except of line 279 keeps what was appended before.
RECURSIVE SearchScan(_, _, _, _, _, _, _)
SearchScan(raw, i, lim, handle, topic, kws, acc) ==
    IF i > Len(raw) \/ i - 1 >= lim THEN acc
    ELSE IF CompareRaises(raw[i].date, DatetimeNow) THEN acc
    ELSE IF raw[i].date.t < Now - SearchDayWindow THEN acc
    ELSE SearchScan(raw, i + 1, lim, handle, topic, kws,
                    Append(acc, [title           |-> ExtractTitle(raw[i].content),
                                 content         |-> raw[i].content,
                                 source          |-> handle,
                                 timestamp       |-> raw[i].date,
                                 topic           |-> topic,
                                 relevance_score |->
                                     CalculateRelevance(raw[i].content, kws)]))

\* the queries and topic lists search_news is called with
SearchQueries ==
    {<<"what", "happened", "in", "cricket", "today">>, <<"kya", "hua">>, <<"Cricket">>}

SearchTopicLists == {<<>>, <<"technology">>, <<"general", "weather">>}

\* how many more tweets the next handle delivers
SearchRoom ==
    IF Len(search_results) < MaxItems
    THEN Min(MaxUnit, MaxItems - Len(search_results)) ELSE 0

\* the call search_news(query, topics, limit): the keywords are extracted
SearchCall ==
    /\ pc = "idle"
    /\ pc' = "search"
    /\ \E q \in SearchQueries, tps \in SearchTopicLists, lim \in 0..MaxLimit :
         /\ query' = q
         /\ keywords' = ExtractKeywords(q)
         /\ topics' = tps
         /\ limit' = lim
    /\ ti' = 1
    /\ ui' = 1
    /\ handles' = <<>>
    /\ search_results' = <<>>
    /\ result' = <<>>
    /\ outcome' = "none"
    /\ UNCHANGED <<auto_scrape_enabled, caller, all_news, news_items, feeds,
                   error_count, twitter_success, attempted, failed, finished,
                   botVars, deliveryVars, digestVars>>

\* _search_topic_with_keywords(topic, keywords, limit) entered
SearchTopic ==
    /\ pc = "search" /\ ti <= Len(topics)
    /\ pc' = "search_handles"
    /\ handles' = HandlesFor(Topic)
    /\ ui' = 1
    /\ UNCHANGED <<auto_scrape_enabled, caller, topics, limit, ti, all_news,
                   news_items, feeds, error_count, twitter_success, attempted, failed,
                   result, outcome, finished, botVars, deliveryVars, digestVars, searchVars>>

\* one iteration of "for handle in handles[:2]": the tweets the search scraper
\* yields are scanned; when the scraper raises the loop ends as it does at the
\* end of the tweets, what was appended stays (results is extended into
\* search_results when the topic is done, which no exception prevents)
SearchHandle ==
    /\ pc = "search_handles" /\ ui <= Len(Take(handles, SearchHandleSlice))
    /\ \E raw \in SeqsUpTo(SearchTweet, SearchRoom) :
         search_results' =
             SearchScan(raw, 1, limit, handles[ui], Topic, keywords, search_results)
    /\ ui' = ui + 1
    /\ UNCHANGED <<auto_scrape_enabled, pc, caller, topics, limit, ti, all_news,
                   news_items, handles, feeds, error_count, twitter_success, attempted,
                   failed, result, outcome, finished, botVars, deliveryVars, digestVars, query,
                   keywords>>

\* _search_topic_with_keywords returns and search_news goes to the next topic
SearchTopicDone ==
    /\ pc = "search_handles" /\ ui > Len(Take(handles, SearchHandleSlice))
    /\ pc' = "search"
    /\ ti' = ti + 1
    /\ UNCHANGED <<auto_scrape_enabled, caller, topics, limit, all_news, news_items,
                   handles, feeds, ui, error_count, twitter_success, attempted, failed,
                   result, outcome, finished, botVars, deliveryVars, digestVars, searchVars>>

\* lines 129-130: _rank_by_relevance raises or the ranked list is cut and
\* returned (search_results keeps the order of collection, result holds the
\* ranked list)
SearchRank ==
    /\ pc = "search" /\ ti > Len(topics)
    /\ pc' = "searched"
    /\ IF RankRaises(search_results)
       THEN outcome' = "raised" /\ result' = <<>>
       ELSE outcome' = "returned" /\ result' = Take(RankByRelevance(search_results), limit)
    /\ UNCHANGED <<auto_scrape_enabled, caller, topics, limit, ti, all_news,
                   news_items, handles, feeds, ui, error_count, twitter_success,
                   attempted, failed, finished, botVars, deliveryVars, digestVars, searchVars>>

\* search_news returns to its caller
SearchReturn ==
    /\ pc = "searched"
    /\ pc' = "idle"
    /\ topics' = <<>>
    /\ limit' = 0
    /\ ti' = 1
    /\ ui' = 1
    /\ handles' = <<>>
    /\ result' = <<>>
    /\ outcome' = "none"
    /\ query' = <<>>
    /\ keywords' = <<>>
    /\ search_results' = <<>>
    /\ UNCHANGED <<auto_scrape_enabled, caller, all_news, news_items, feeds,
                   error_count, twitter_success, attempted, failed, finished,
                   botVars, deliveryVars, digestVars>>

\* search_news alone, called directly
NextSearch ==
    \/ SearchCall
    \/ SearchTopic
    \/ SearchHandle
    \/ SearchTopicDone
    \/ SearchRank
    \/ SearchReturn

SpecSearch == Init /\ [][NextSearch]_vars

----------------------------------------------------------------------------
(* The retry loop of _get_tweets_from_handle, attempt by attempt *)

\* str(e) of what the scraper raises
ErrorTexts == {"404 Not Found", "Account blocked", "Connection timed out"}

\* str(e) of the TypeError of line 213
TypeErrorText == "can't compare offset-naive and offset-aware datetimes"

\* "404" in str(e) or "blocked" in str(e).lower()
IsBlockSignal(e) == e \in {"404 Not Found", "Account blocked"}

\* lines 238-242: what an attempt that raised adds to retry_count
RetryStep(e) == IF IsBlockSignal(e) THEN 2 ELSE 1

\* the loop condition with one attempt more
RetryGuardOneMore(rc) == rc <= max_retries

\* while retry_count < max_retries
RetryGuard(rc) == rc < max_retries

\* the for loop of lines 203-223 over what the generator yields, from the i-th
\* item on, appending to acc: the generator raises error once its tweets are
\* used up ("none": it just ends); [err |-> str(e) of what the attempt raised or
\* "none", tweets |-> the list tweets after the loop].  The timeout of line 205
\* ends the loop as the other breaks do.
RECURSIVE ScanAttempt(_, _, _, _, _)
ScanAttempt(raw, i, lim, acc, error) ==
    IF i > Len(raw) THEN [err |-> error, tweets |-> acc]
    ELSE IF i - 1 >= lim THEN [err |-> "none", tweets |-> acc]
    ELSE IF CompareRaises(raw[i].date, DatetimeNow)
         THEN [err |-> TypeErrorText, tweets |-> acc]
    ELSE IF raw[i].date.t < Now - DayWindow THEN [err |-> "none", tweets |-> acc]
    ELSE ScanAttempt(raw, i + 1, lim, Append(acc, raw[i]), error)

\* the tweets a query of the scraper yields here: the loop does not look at their
\* text
QueriedTweet == [content : {NewsTweetText}, date : [t : Times, aware : BOOLEAN]]

\* the call _get_tweets_from_handle(handle, limit): lines 185-188
GetTweetsCall ==
    /\ pc = "idle"
    /\ pc' = "attempt"
    /\ limit' \in 0..MaxLimit
    /\ retry_count' = 0
    /\ attempts' = 0
    /\ handle_tweets' = <<>>
    /\ tweets_returned' = <<>>
    /\ UNCHANGED <<auto_scrape_enabled, caller, topics, ti, all_news, news_items,
                   handles, feeds, ui, error_count, twitter_success, attempted, failed,
                   result, outcome, finished, deliveryVars, digestVars, searchVars,
                   chatVars, schedulerVars, directVars, counted>>

\* one pass of the while loop: the scraper is queried and its items read; the
\* pass returns the tweets when it appended one, else it counts a retry (two for
\* a 404 or blocked error); tweets, set before the loop, keeps what a pass that
\* raised had appended
GetTweetsAttempt ==
    /\ pc = "attempt" /\ RetryGuard(retry_count)
    /\ attempts' = attempts + 1
    /\ \E raw \in SeqsUpTo(QueriedTweet, MaxUnit), error \in ErrorTexts \cup {"none"} :
         LET r == ScanAttempt(raw, 1, limit, handle_tweets, error)
             tweet_count == Len(r.tweets) - Len(handle_tweets)
         IN  /\ handle_tweets' = r.tweets
             /\ IF r.err # "none"
                THEN /\ retry_count' = retry_count + RetryStep(r.err)
                     /\ UNCHANGED <<pc, tweets_returned>>
                ELSE IF tweet_count > 0
                THEN /\ pc' = "retried"
                     /\ tweets_returned' = r.tweets
                     /\ UNCHANGED retry_count
                ELSE /\ retry_count' = retry_count + 1
                     /\ UNCHANGED <<pc, tweets_returned>>
    /\ UNCHANGED <<auto_scrape_enabled, caller, topics, limit, ti, all_news,
                   news_items, handles, feeds, ui, error_count, twitter_success,
                   attempted, failed, result, outcome, finished, deliveryVars,
                   digestVars, searchVars, chatVars, schedulerVars, directVars, counted>>

\* lines 247-248: the loop is over, [] is returned
GetTweetsGiveUp ==
    /\ pc = "attempt" /\ ~RetryGuard(retry_count)
    /\ pc' = "retried"
    /\ tweets_returned' = <<>>
    /\ UNCHANGED <<auto_scrape_enabled, caller, topics, limit, ti, all_news,
                   news_items, handles, feeds, ui, error_count, twitter_success,
                   attempted, failed, result, outcome, finished, deliveryVars,
                   digestVars, searchVars, chatVars, schedulerVars, directVars, counted,
                   retry_count, attempts, handle_tweets>>

\* the caller has the list; the locals of the call are gone
GetTweetsReturn ==
    /\ pc = "retried"
    /\ pc' = "idle"
    /\ limit' = 0
    /\ retry_count' = 0
    /\ attempts' = 0
    /\ handle_tweets' = <<>>
    /\ tweets_returned' = <<>>
    /\ UNCHANGED <<auto_scrape_enabled, caller, topics, ti, all_news, news_items,
                   handles, feeds, ui, error_count, twitter_success, attempted, failed,
                   result, outcome, finished, deliveryVars, digestVars, searchVars,
                   chatVars, schedulerVars, directVars, counted>>

\* _get_tweets_from_handle alone, called directly
NextRetry ==
    \/ GetTweetsCall
    \/ GetTweetsAttempt
    \/ GetTweetsGiveUp
    \/ GetTweetsReturn

SpecRetry == Init /\ [][NextRetry]_vars

\* the event loop runs the coroutine on: asyncio.sleep(1) ends and every pass of
\* the loop is taken
SpecRetryFair == SpecRetry /\ WF_vars(NextRetry)

----------------------------------------------------------------------------
(* The preference store (user_preferences.py) and the chat handlers of      *)
(* bot.py that end without a fetch: the settings buttons, text messages and *)
(* voice messages.  The sqlite statements and the Telegram calls succeed.   *)

\* the values update_user_preference inserts a new row with
DefaultRow ==
    [language |-> "english", topics |-> <<>>, frequency |-> "daily", setup_complete |-> 0]

\* the columns the INSERT of update_user_preference names
InsertedColumns == {"language", "topics", "frequency"}

\* update_user_preference(user_id, key, value): UPDATE of the user's row, or
\* INSERT of language, topics and frequency from the defaults with the key set,
\* the other columns getting the defaults of the table
UpdateUserPreference(table, u, key, value) ==
    LET row == IF u \in DOMAIN table THEN [table[u] EXCEPT ![key] = value]
               ELSE IF key \in InsertedColumns THEN [DefaultRow EXCEPT ![key] = value]
               ELSE DefaultRow
    IN  [x \in DOMAIN table \cup {u} |-> IF x = u THEN row ELSE table[x]]

\* get_user_preferences(user_id): language, topics and frequency of the row, or
\* of the defaults
GetUserPreferences(table, u) ==
    LET row == IF u \in DOMAIN table THEN table[u] ELSE DefaultRow
    IN  [language |-> row.language, topics |-> row.topics, frequency |-> row.frequency]

\* get_active_users(), as the set of the ids selected
GetActiveUsers(table) == {u \in DOMAIN table : table[u].setup_complete = 1}

\* get_all_users_by_frequency(frequency), as the set of the ids selected
GetAllUsersByFrequency(table, frequency) ==
    {u \in DOMAIN table : table[u].frequency = frequency}

\* x in list
InList(list, x) == \E i \in 1..Len(list) : list[i] = x

\* list.remove(x) for an x that is in the list: its first occurrence goes
ListRemove(list, x) ==
    LET first == CHOOSE i \in 1..Len(list) :
                     list[i] = x /\ \A j \in 1..(i - 1) : list[j] # x
    IN  SubSeq(list, 1, first - 1) \o SubSeq(list, first + 1, Len(list))

\* set_user_language: lang_names
lang_names ==
    [hindi |-> "Hindi", english |-> "English", hinglish |-> "Hinglish (Mix)"]

\* set_user_frequency: freq_names
freq_names ==
    [daily |-> "Once a day", twice_daily |-> "Twice a day", weekly |-> "Weekly",
     on_request |-> "On request only"]

\* callback_data of the buttons, as the parts that "_" separates
\* (callback_data.split("_")); the text is the parts joined by "_"
LanguageButtons == {<<"lang", "hindi">>, <<"lang", "english">>, <<"lang", "hinglish">>}
FrequencyButtons ==
    {<<"freq", "daily">>, <<"freq", "twice", "daily">>, <<"freq", "weekly">>,
     <<"freq", "on", "request">>}
TopicButtons == {<<"topic", "technology">>, <<"topic", "current", "affairs">>}

\* callback_data.replace("topic_", "") of a topic button
AfterPrefix(parts) == JoinWith(Tail(parts), "_")

\* callback_data.split("_")[1]
SecondPart(parts) == parts[2]

\* a chat handler ends: nothing of a fetch is in flight before or after it
ChatEnds(how) ==
    /\ pc = "idle"
    /\ finished' = how
    /\ UNCHANGED <<auto_scrape_enabled, pc, caller, topics, limit, ti, all_news,
                   news_items, handles, feeds, ui, error_count, twitter_success,
                   attempted, failed, result, outcome, deliveryVars, digestVars,
                   searchVars, retryVars, schedulerVars,
                   directVars, counted>>

\* button_callback, lines 243-246, and set_user_language
PressLanguage ==
    \E u \in Users, button \in LanguageButtons :
        LET lang == SecondPart(button) IN
        /\ prefs' = UpdateUserPreference(prefs, u, "language", lang)
        /\ ChatEnds(IF lang \in DOMAIN lang_names THEN "language_set"
                    ELSE "callback_error")
        /\ UNCHANGED chosen

\* button_callback, lines 247-250, and set_user_frequency: the row is written,
\* then freq_names[frequency] is looked up for the message; a KeyError ends in
\* the except of line 257, which tells the user that an error occurred
PressFrequency ==
    \E u \in Users, button \in FrequencyButtons :
        LET frequency == SecondPart(button) IN
        /\ prefs' = UpdateUserPreference(prefs, u, "frequency", frequency)
        /\ chosen' = [chosen EXCEPT ![u] = AfterPrefix(button)]
        /\ ChatEnds(IF frequency \in DOMAIN freq_names THEN "frequency_set"
                    ELSE "callback_error")

\* a press that adds the topic whether the user has it or not
AppendTopic(table, u, topic) ==
    UpdateUserPreference(table, u, "topics",
                         Append(GetUserPreferences(table, u).topics, topic))

\* button_callback, lines 211-220: the topic is removed when the user has it and
\* added when not (remove_user_topic, add_user_topic)
ToggleTopic(table, u, topic) ==
    LET current_topics == GetUserPreferences(table, u).topics
    IN  UpdateUserPreference(table, u, "topics",
                             IF InList(current_topics, topic)
                             THEN ListRemove(current_topics, topic)
                             ELSE Append(current_topics, topic))

\* button_callback, lines 209-225: the topic is toggled, then the options are
\* shown
PressTopic ==
    \E u \in Users, button \in TopicButtons :
        /\ prefs' = ToggleTopic(prefs, u, AfterPrefix(button))
        /\ ChatEnds("topics_shown")
        /\ UNCHANGED chosen

\* the parameters of handle_news_query besides self
handle_news_query_params == <<"update", "context">>

\* binding n positional arguments to parameters without defaults raises
\* TypeError unless there are as many
PositionalRaises(params, n) == n # Len(params)

\* the texts of the messages users send
MessageTexts == {"any news bhai?", "kya hua aaj", "hello there"}

\* any(keyword in user_message.lower() for keyword in ['news', 'kya hua',
\* 'what happened', 'update', 'bhai'])
HasNewsKeyword(text) == text \in {"any news bhai?", "kya hua aaj", "what happened today"}

\* what transcribe_audio returns: None, or the stripped text, which can be empty
Transcriptions == {None, "", "what happened today"}

\* handle_text_message: a text with a news keyword is passed on by
\* handle_news_query(user_id, user_message, update), and nothing catches the
\* TypeError of that call; another text is answered with the hint of line 386.
\* (Were the call bound, lines 418-467 would run; no call of bot.py is.)
TextMessage ==
    /\ \E u \in Users, user_message \in MessageTexts :
         ChatEnds(IF ~HasNewsKeyword(user_message) THEN "text_hint"
                  ELSE IF PositionalRaises(handle_news_query_params, 3)
                  THEN "text_raised"
                  ELSE "query_handled")
    /\ UNCHANGED chatVars

\* handle_voice_message: the download raises, or the audio is transcribed; for
\* None or '' the user is told so (line 410), else the text is echoed and
\* handle_news_query(user_id, transcribed_text, update) called, whose TypeError
\* the except of line 412 answers with the apology of line 414
VoiceMessage ==
    /\ \E u \in Users :
         \/ ChatEnds("voice_download_error")
         \/ \E transcribed_text \in Transcriptions :
              ChatEnds(IF transcribed_text \in {None, ""} THEN "voice_not_understood"
                       ELSE IF PositionalRaises(handle_news_query_params, 3)
                       THEN "voice_query_error"
                       ELSE "query_handled")
    /\ UNCHANGED chatVars

\* the chat of the users with the bot, without /news
NextChat ==
    \/ PressLanguage
    \/ PressFrequency
    \/ PressTopic
    \/ TextMessage
    \/ VoiceMessage

SpecChat == Init /\ [][NextChat]_vars

----------------------------------------------------------------------------
(* _prepare_text_for_summarization (news_summarizer.py) on the lengths of   *)
(* the texts: an item is the len of its clean_content.                       *)

PrepareLimit == 1000   \* len(combined) > 1000, combined[:1000]
EllipsisLen == 3       \* len("...")

\* the lengths an item's cleaned content can have here
ContentLens == {0, SubstantialLen, SubstantialLen + 1, 400, PrepareLimit + 200}

RECURSIVE SumLens(_)
SumLens(lens) == IF lens = <<>> THEN 0 ELSE Head(lens) + SumLens(Tail(lens))

\* len(' '.join(texts))
JoinedLen(lens) == IF lens = <<>> THEN 0 ELSE SumLens(lens) + Len(lens) - 1

\* len of what _prepare_text_for_summarization returns for items of these lengths
PreparedLen(lens) ==
    LET texts == SelectSeq(Take(lens, PrepareCap), LAMBDA n : n > SubstantialLen)
    IN  IF JoinedLen(texts) > PrepareLimit THEN PrepareLimit + EllipsisLen
        ELSE JoinedLen(texts)

\* the variables a call of _prepare_text_for_summarization leaves alone
PrepareFrame ==
    UNCHANGED <<auto_scrape_enabled, caller, topics, limit, ti, all_news,
                news_items, handles, feeds, ui, error_count, twitter_success,
                attempted, failed, result, outcome, finished, deliveryVars,
                digestVars, searchVars, retryVars, chatVars, schedulerVars,
                store_call, send_users, send_i, send_log, counted>>

\* the group gets one more item
AddContent ==
    /\ pc = "idle" /\ Len(contents) < MaxContents
    /\ \E n \in ContentLens : contents' = Append(contents, n)
    /\ UNCHANGED <<pc, combined>>
    /\ PrepareFrame

\* _prepare_text_for_summarization(items) runs
PrepareTextCall ==
    /\ pc = "idle"
    /\ pc' = "prepared"
    /\ combined' = PreparedLen(contents)
    /\ UNCHANGED contents
    /\ PrepareFrame

\* the caller has the text; the next group starts empty
PrepareTextReturn ==
    /\ pc = "prepared"
    /\ pc' = "idle"
    /\ contents' = <<>>
    /\ combined' = 0
    /\ PrepareFrame

\* text preparation alone, on every group of up to MaxContents items
NextPrepare ==
    \/ AddContent
    \/ PrepareTextCall
    \/ PrepareTextReturn

SpecPrepare == Init /\ [][NextPrepare]_vars

----------------------------------------------------------------------------
(* The preference store called directly (user_preferences.py), next to the  *)
(* topic buttons.                                                            *)

\* the frequency a direct call sets
DirectFrequency == "weekly"

\* everything but the table and the record of the call stays
StoreFrame ==
    UNCHANGED <<auto_scrape_enabled, pc, caller, topics, limit, ti, all_news,
                news_items, handles, feeds, ui, error_count, twitter_success,
                attempted, failed, result, outcome, finished, deliveryVars,
                digestVars, searchVars, retryVars, chosen, schedulerVars, contents,
                combined, send_users, send_i, send_log, counted>>

\* what a call of the store leaves: when sqlite raises, the except of line 108
\* returns False and nothing is committed; else the row is written and True
\* returned
StoreWrites(ok, u, key, value) ==
    IF ok THEN UpdateUserPreference(prefs, u, key, value) ELSE prefs

\* update_user_preference(user_id, 'frequency', 'weekly')
UpdateFrequencyCall ==
    /\ \E u \in Users, ok \in BOOLEAN :
         /\ prefs' = StoreWrites(ok, u, "frequency", DirectFrequency)
         /\ store_call' = [op |-> "update_user_preference", user |-> u,
                           key |-> "frequency", returned |-> ok]
    /\ StoreFrame

\* mark_setup_complete(user_id): update_user_preference(user_id,
\* 'setup_complete', 1)
MarkSetupComplete ==
    /\ \E u \in Users, ok \in BOOLEAN :
         /\ prefs' = StoreWrites(ok, u, "setup_complete", 1)
         /\ store_call' = [op |-> "mark_setup_complete", user |-> u,
                           key |-> "setup_complete", returned |-> ok]
    /\ StoreFrame

\* the store under direct calls and topic buttons
NextStore ==
    \/ UpdateFrequencyCall
    \/ MarkSetupComplete
    \/ PressTopic

SpecStore == Init /\ [][NextStore]_vars

----------------------------------------------------------------------------
(* The scheduler (scheduler.py): start, stop, the loop of each thread that  *)
(* start created, and the jobs of the schedule module, whose registry is    *)
(* global to the process.                                                   *)

\* the jobs start() registers, in the order of lines 28-30
StartJobs == <<"_send_daily_news", "_send_evening_news", "_send_weekly_news">>

\* the frequency each job passes to get_all_users_by_frequency; the jobs are due
\* every day at 08:00, every day at 18:00 and every monday at 09:00
JobFrequency(job) ==
    CASE job = "_send_daily_news"   -> "daily"
      [] job = "_send_evening_news" -> "twice_daily"
      [] job = "_send_weekly_news"  -> "weekly"

\* nothing of the chat, of a fetch or of a synthesis changes
SchedulerFrame ==
    UNCHANGED <<auto_scrape_enabled, pc, caller, topics, limit, ti, all_news,
                news_items, handles, feeds, ui, error_count, twitter_success,
                attempted, failed, result, outcome, finished, deliveryVars,
                digestVars, searchVars, retryVars, chosen, directVars,
                counted>>

\* NewsScheduler.start(): nothing when running; else the flag is set, the three
\* jobs are registered and a thread is started on _run_scheduler
SchedulerStart ==
    /\ IF running
       THEN UNCHANGED <<running, jobs, threads>>
       ELSE /\ Len(threads) < MaxThreads
            /\ running' = TRUE
            /\ jobs' = jobs \o StartJobs
            /\ threads' = Append(threads, "check")
    /\ UNCHANGED <<prefs, due, selected>>
    /\ SchedulerFrame

\* NewsScheduler.stop(): the flag is cleared and schedule.clear() drops the jobs;
\* the thread is neither joined nor told apart from a later one
SchedulerStop ==
    /\ running' = FALSE
    /\ jobs' = <<>>
    /\ due' = {}
    /\ UNCHANGED <<prefs, threads, selected>>
    /\ SchedulerFrame

\* _run_scheduler, line 46: "while self.running"
ThreadCheck ==
    /\ \E t \in 1..Len(threads) :
         /\ threads[t] = "check"
         /\ threads' = [threads EXCEPT ![t] = IF running THEN "pending" ELSE "exited"]
    /\ UNCHANGED <<prefs, running, jobs, due, selected>>
    /\ SchedulerFrame

\* the time of a registered job comes
JobDue ==
    /\ \E k \in 1..Len(jobs) :
         /\ jobs[k] \notin due
         /\ due' = due \cup {jobs[k]}
    /\ UNCHANGED <<prefs, running, threads, jobs, selected>>
    /\ SchedulerFrame

\* schedule.run_pending() runs a due job: _send_daily_news, _send_evening_news
\* or _send_weekly_news selects the users of one frequency; then
\* asyncio.create_task raises RuntimeError, the thread having no running event
\* loop, and the except of the job logs it: nothing is sent
ThreadRunJob ==
    /\ \E t \in 1..Len(threads), job \in due :
         /\ threads[t] = "pending"
         /\ due' = due \ {job}
         /\ selected' = [job   |-> job,
                         users |-> GetAllUsersByFrequency(prefs, JobFrequency(job))]
    /\ UNCHANGED <<prefs, running, threads, jobs>>
    /\ SchedulerFrame

\* run_pending is done: time.sleep(60)
ThreadSleep ==
    /\ due = {}
    /\ \E t \in 1..Len(threads) :
         /\ threads[t] = "pending"
         /\ threads' = [threads EXCEPT ![t] = "sleep"]
    /\ UNCHANGED <<prefs, running, jobs, due, selected>>
    /\ SchedulerFrame

\* the sleep is over: back to the loop condition
ThreadWake ==
    /\ \E t \in 1..Len(threads) :
         /\ threads[t] = "sleep"
         /\ threads' = [threads EXCEPT ![t] = "check"]
    /\ UNCHANGED <<prefs, running, jobs, due, selected>>
    /\ SchedulerFrame

\* a row of the table gets one of the four frequencies:
\* update_user_preference(user_id, 'frequency', value)
StoreFrequency ==
    /\ \E u \in Users, value \in DOMAIN freq_names :
         prefs' = UpdateUserPreference(prefs, u, "frequency", value)
    /\ UNCHANGED schedulerVars
    /\ SchedulerFrame

\* the scheduler and the rows it reads
NextScheduler ==
    \/ SchedulerStart
    \/ SchedulerStop
    \/ ThreadCheck
    \/ JobDue
    \/ ThreadRunJob
    \/ ThreadSleep
    \/ ThreadWake
    \/ StoreFrequency

SpecScheduler == Init /\ [][NextScheduler]_vars

----------------------------------------------------------------------------
(* _send_news_to_users (scheduler.py): the loop over the users selected.     *)

\* the step of _send_scheduled_news that raises for a user, if one does: reading
\* the preferences, get_latest_news, create_news_digest, send_message, or the
\* voice note (generate_voice_note, os.path.exists, send_voice)
FailingSteps == {"none", "preferences", "fetch", "digest", "send_message", "voice"}

\* how _send_scheduled_news ends when that step raises: the try of line 90
\* spans the body and the except of line 142 logs an Exception and returns
SendScheduledNewsEnds(step) == IF step = "none" THEN "returned" ELSE "logged"

\* the lists of distinct user ids
UserLists ==
    {us \in SeqsUpTo(Users, MaxUsers) : \A i, j \in 1..Len(us) : i # j => us[i] # us[j]}

\* a loop that ends at the first user whose delivery failed
AfterUserStop(i, step) == IF step = "none" THEN i + 1 ELSE Len(send_users) + 1

\* the for loop of line 80 after the user at place i: whether the call returned,
\* logged an error or raised into the except of line 85, the next user follows
AfterUser(i, step) == i + 1

\* the variables _send_news_to_users leaves alone
SendFrame ==
    UNCHANGED <<auto_scrape_enabled, caller, topics, limit, ti, all_news,
                news_items, handles, feeds, ui, error_count, twitter_success,
                attempted, failed, result, outcome, deliveryVars, digestVars,
                searchVars, retryVars, chatVars, schedulerVars, store_call, contents,
                combined, counted>>

\* _send_news_to_users(user_ids, update_type) is called
SendNewsToUsersCall ==
    /\ pc = "idle"
    /\ pc' = "sending"
    /\ send_users' \in UserLists
    /\ send_i' = 1
    /\ send_log' = <<>>
    /\ finished' = "none"
    /\ SendFrame

\* one iteration of the for loop of line 80: _send_scheduled_news(user_id,
\* update_type) is awaited, then asyncio.sleep(1)
SendToNextUser ==
    /\ pc = "sending" /\ send_i <= Len(send_users)
    /\ \E step \in FailingSteps :
         /\ send_log' = Append(send_log, [user   |-> send_users[send_i],
                                          raised |-> step,
                                          ends   |-> SendScheduledNewsEnds(step)])
         /\ send_i' = AfterUser(send_i, step)
    /\ UNCHANGED <<pc, send_users, finished>>
    /\ SendFrame

\* the list is exhausted: _send_news_to_users returns
SendNewsToUsersReturn ==
    /\ pc = "sending" /\ send_i > Len(send_users)
    /\ pc' = "idle"
    /\ finished' = "send_returned"
    /\ UNCHANGED <<send_users, send_i, send_log>>
    /\ SendFrame

\* the delivery loop alone
NextSend ==
    \/ SendNewsToUsersCall
    \/ SendToNextUser
    \/ SendNewsToUsersReturn

SpecSend == Init /\ [][NextSend]_vars

----------------------------------------------------------------------------
(* Claims *)

Returned == pc = "done" /\ outcome = "returned"

\* C1: get_latest_news never raises to its caller, whatever the sources deliver
\* and whatever the kinds of timestamps of the items collected.
C1_NeverRaises == outcome # "raised"

\* C2: for every topic list and every limit >= 0, get_latest_news returns at most
\* limit items, whatever the tiers deliver.
C2_AtMostLimit == Returned => Len(result) <= limit

C2_Witness ==
    /\ Returned
    /\ limit >= 1
    /\ Len(all_news) > limit
    /\ Len(result) = limit

NewsHandlerEndings ==
    {"news_sent", "news_none", "news_digest_error", "news_send_error", "news_fetch_error",
     "news_reply_error"}

\* C3: on every exit path of send_personalized_news after the flag was enabled,
\* auto_scrape_enabled is False when the handler finishes.
C3_FlagResetAfterNews == finished \in NewsHandlerEndings => ~auto_scrape_enabled

\* C4: whenever get_latest_news, called by the /news handler or by a scheduled
\* delivery, is contacting a source, auto_scrape_enabled is True.
C4_FetchGated == (Contacting /\ caller \in {"news", "sched"}) => auto_scrape_enabled

Count(s, x) == Cardinality({i \in 1..Len(s) : s[i] = x})

\* C5: the returned sequence is non-increasing by timestamp, and the items kept
\* after the cut are the most recent of those collected.
C5_SortedMostRecent ==
    Returned =>
        /\ \A i \in 1..(Len(result) - 1) :
             result[i].timestamp.t >= result[i + 1].timestamp.t
        /\ Len(result) = Min(limit, Len(all_news))
        /\ \A i \in 1..Len(result) : Count(result, result[i]) <= Count(all_news, result[i])
        /\ \A j \in 1..Len(all_news) :
             Count(result, all_news[j]) < Count(all_news, all_news[j])
             => \A i \in 1..Len(result) :
                  result[i].timestamp.t >= all_news[j].timestamp.t

C5_Witness ==
    /\ Returned
    /\ Len(result) >= 2
    /\ Len(all_news) > Len(result)
    /\ result[1].timestamp.t > result[2].timestamp.t
    /\ \E i, j \in 1..Len(all_news) :
         i < j /\ all_news[i].timestamp.t < all_news[j].timestamp.t

\* C6: every item the fetcher produces has a timezone-aware timestamp, so aware and
\* naive timestamps are never mixed in one result.
C6_AllAware ==
    /\ \A i \in 1..Len(all_news) : all_news[i].timestamp.aware
    /\ \A i \in 1..Len(news_items) : news_items[i].timestamp.aware

\* C7: every item returned by get_latest_news has non-empty content.
C7_NonEmptyContent == Returned => \A i \in 1..Len(result) : result[i].content # ""

HandlesAttempted(k) ==
    \A u \in 1..Len(Take(HandlesFor(topics[k]), HandleSlice)) :
        <<k, "handle", u>> \in attempted

FeedsAttempted(k) ==
    (\E u \in 1..Len(FeedsFor(topics[k])) : <<k, "feed", u>> \in attempted)
    => \A u \in 1..Len(FeedsFor(topics[k])) : <<k, "feed", u>> \in attempted

PagesAttempted(k) ==
    (\E u \in 1..Len(current_affairs_sources) : <<k, "page", u>> \in attempted)
    => \A u \in 1..Len(current_affairs_sources) : <<k, "page", u>> \in attempted

\* C8: when get_latest_news ends, every topic was attempted, and within each topic
\* every handle of handles[:3], every feed (once the feeds were started) and every
\* page (once the pages were started) was attempted, whichever of them raised.
C8_Isolation ==
    pc = "done" =>
        \A k \in 1..Len(topics) :
            /\ <<k, "topic", 0>> \in attempted
            /\ IF topics[k] = "current_affairs" THEN PagesAttempted(k)
               ELSE HandlesAttempted(k) /\ FeedsAttempted(k)

C8_Witness ==
    /\ pc = "done"
    /\ failed[2] \in {"handle", "feed", "page"}
    /\ <<failed[1], failed[2], failed[3] + 1>> \in attempted

\* the list scrape_current_affairs is about to return
CurrentAffairsResult == FormatNews(Take(news_items, TopicLimit))

\* C9: the list scrape_current_affairs returns holds no two items with the same
\* title.
C9_NoDuplicateTitles ==
    (pc = "pages" /\ ui > Len(current_affairs_sources)) =>
        \A i, j \in 1..Len(CurrentAffairsResult) :
            i # j => CurrentAffairsResult[i].title # CurrentAffairsResult[j].title

\* C10: a topic key with no configured sources is served from the general topic's
\* tiers: the handle list and the feed list used for it are those of general.
C10_UnknownTopicUsesGeneral ==
    (pc = "feeds" /\ Topic \notin DOMAIN rss_feeds) =>
        /\ handles = news_handles["general"]
        /\ feeds = rss_feeds["general"]

\* the topics of the NewsItem data model
TopicEnum ==
    {"politics", "technology", "sports", "finance", "entertainment", "health",
     "international", "business", "general", "current_affairs"}

\* C11: every item get_latest_news returns has a topic of the closed set; items
\* fetched for a topic key outside the set are tagged general.
C11_TopicInClosedSet ==
    Returned => \A i \in 1..Len(result) : result[i].topic \in TopicEnum

\* a synthesis called without max_length has ended
SynthesisEnded == pc \in {"digested", "summarized"} /\ max_length = {}

\* the text a synthesis returned
DigestText == JoinWith(digest, "\n\n")

SupportedLanguages == {"hindi", "english", "hinglish"}

Range(f) == {f[i] : i \in DOMAIN f}

\* C12: whatever the items and the language, and whichever step fails,
\* create_news_digest and summarize_news do not raise and return a non-empty
\* string.
C12_SynthesisReturnsText ==
    SynthesisEnded => (digest_outcome = "returned" /\ DigestText # "")

\* C13: for an empty item list create_news_digest and summarize_news return the
\* fixed no-news message of the requested language (hindi, english, hinglish),
\* which is not empty, and the summarizer is not called.
C13_NoNewsMessage ==
    (SynthesisEnded /\ news_data = <<>> /\ language \in SupportedLanguages) =>
        /\ digest_outcome = "returned"
        /\ DigestText = messages[language]
        /\ DigestText # ""
        /\ summarizer_calls = 0

C13_Witness ==
    /\ pc = "digested"
    /\ max_length = {}
    /\ news_data = <<>>
    /\ language = "hindi"
    /\ digest = <<messages["hindi"]>>

\* C14: a synthesis given a budget max_length = N returns a text, and when N is at
\* least the length of its intro and outro together the text is at most N long
\* and ends with an outro.
C14_FitsBudget ==
    (pc = "digested" /\ max_length # {}) =>
        /\ digest_outcome = "returned"
        /\ digest # <<>>
        /\ \A n \in max_length :
             n >= Len(digest[1]) + Len(digest[Len(digest)]) =>
                 /\ Len(DigestText) <= n
                 /\ digest[Len(digest)] \in Range(EndingsFor(language))

\* C15: for a non-empty item list and a supported language the text
\* create_news_digest returns begins with an intro phrase and ends with an outro
\* phrase of that language, on the path where a step raised too.
C15_IntroAndOutro ==
    (pc = "digested" /\ digest_outcome = "returned" /\ news_data # <<>>
     /\ language \in SupportedLanguages) =>
        /\ digest[1] \in Range(casual_intros[language])
        /\ digest[Len(digest)] \in Range(endings[language])

Searched == pc = "searched" /\ outcome = "returned"

\* C16: the ranked sequence is a rearrangement of the results collected, ordered
\* by relevance_score descending and, among equal scores, by timestamp
\* descending; search_news returns the first limit items of that order.
C16_RankedOrder ==
    Searched =>
        /\ \A i \in 1..(Len(result) - 1) :
             \/ ScoreGreater(result[i].relevance_score, result[i + 1].relevance_score)
             \/ /\ ScoreEqual(result[i].relevance_score, result[i + 1].relevance_score)
                /\ result[i].timestamp.t >= result[i + 1].timestamp.t
        /\ Len(result) = Min(limit, Len(search_results))
        /\ \A i \in 1..Len(result) :
             Count(result, result[i]) <= Count(search_results, result[i])
        /\ \A j \in 1..Len(search_results) :
             Count(result, search_results[j]) < Count(search_results, search_results[j])
             => \A i \in 1..Len(result) :
                  \/ ScoreGreater(result[i].relevance_score,
                                  search_results[j].relevance_score)
                  \/ /\ ScoreEqual(result[i].relevance_score,
                                   search_results[j].relevance_score)
                     /\ result[i].timestamp.t >= search_results[j].timestamp.t

C16_Witness ==
    /\ Searched
    /\ Len(result) >= 2
    /\ ScoreEqual(result[1].relevance_score, result[2].relevance_score)
    /\ result[1].timestamp.t > result[2].timestamp.t
    /\ \E i, j \in 1..Len(search_results) :
         /\ i < j
         /\ search_results[i] = result[2]
         /\ search_results[j] = result[1]

\* C17: no two items of the sequence search_news returns have the same source and
\* the same content and time, also when the topics asked for share handles.
C17_Deduplicated ==
    Searched =>
        \A i, j \in 1..Len(result) :
            i # j => ~(/\ result[i].source = result[j].source
                       /\ result[i].content = result[j].content
                       /\ result[i].timestamp = result[j].timestamp)

\* v is s with some elements left out
RECURSIVE IsSubsequence(_, _)
IsSubsequence(v, s) ==
    IF v = <<>> THEN TRUE
    ELSE IF s = <<>> THEN FALSE
    ELSE IF Head(v) = Head(s) THEN IsSubsequence(Tail(v), Tail(s))
    ELSE IsSubsequence(v, Tail(s))

\* C18: _extract_keywords returns at most 5 tokens, none a stop word, none shorter
\* than 3 characters, all lower-cased, in the order they have in the query.
C18_KeywordsBounded ==
    pc = "keywords" =>
        /\ Len(keywords) <= 5
        /\ \A k \in 1..Len(keywords) :
             /\ keywords[k] \notin stop_words
             /\ Len(keywords[k]) >= 3
             /\ keywords[k] = Lower(keywords[k])
        /\ IsSubsequence(keywords, [i \in 1..Len(query) |-> Lower(query[i])])

C18_Witness ==
    /\ pc = "keywords"
    /\ Len(keywords) = 5
    /\ Cardinality({i \in 1..Len(query) : Lower(query[i]) \notin stop_words
                                          /\ Len(query[i]) >= 3}) > 5
    /\ \E i \in 1..Len(query) : query[i] # Lower(query[i])

\* C19: for the query "what happened in cricket today" the keywords hold none of
\* what, in and today, and hold happened and cricket.
C19_CricketQuery ==
    (pc = "keywords" /\ query = <<"what", "happened", "in", "cricket", "today">>) =>
        /\ \A k \in 1..Len(keywords) : keywords[k] \notin {"what", "in", "today"}
        /\ \E k \in 1..Len(keywords) : keywords[k] = "happened"
        /\ \E k \in 1..Len(keywords) : keywords[k] = "cricket"

DeliveryEndings ==
    {"news_sent", "news_none", "news_digest_error", "news_send_error",
     "news_fetch_error", "news_reply_error", "sched_sent", "sched_none", "sched_error"}

\* C20: in send_personalized_news and _send_scheduled_news voice synthesis is
\* attempted only after the digest text was sent, and when generate_voice_note
\* returned None the handler ends normally with the text sent and no voice
\* message sent.
C20_NullVoiceNonFatal ==
    /\ voice_path # "unset" => (delivered # <<>> /\ delivered[1] = "digest")
    /\ (finished \in DeliveryEndings /\ voice_path = "None") =>
           /\ finished \in {"news_sent", "sched_sent"}
           /\ delivered = <<"digest">>

C20_Witness ==
    /\ finished = "sched_sent"
    /\ voice_path = "None"
    /\ delivered = <<"digest">>

\* the feeds of the k-th topic that were requested
FeedsRequested(k) ==
    {u \in 1..Len(FeedsFor(topics[k])) : <<k, "feed", u>> \in attempted}

\* C21: when the loop over the handles of a topic other than current_affairs is
\* left, _scrape_rss_feed is entered if and only if no handle returned a tweet or
\* fewer than limit items of tier 1 passed the news filter; when tier 1 gave at
\* least limit usable items the topic returns with no feed requested.
C21_FallbackIffInsufficient ==
    [][(pc = "handles" /\ pc' # "handles") =>
          /\ (pc' = "feeds") <=> (~twitter_success \/ Len(news_items) < TopicLimit)
          /\ (pc' # "feeds") => (pc' = "topic" /\ FeedsRequested(ti) = {})]_vars

C21_Witness ==
    /\ pc = "topic" /\ ti = 2
    /\ topics[1] = "technology"
    /\ TopicLimit >= 1
    /\ twitter_success
    /\ Len(all_news) >= TopicLimit
    /\ <<1, "handle", 3>> \in attempted
    /\ FeedsRequested(1) = {}

\* C22: _get_tweets_from_handle queries one handle at most 5 times, every call
\* ends whatever the attempts yield or raise, and a call that gives up returns
\* the empty list (a call that does not give up returns tweets).
C22_RetryBounded ==
    /\ [](attempts <= max_retries)
    /\ [](pc = "retried" =>
            IF retry_count >= max_retries THEN tweets_returned = <<>>
            ELSE tweets_returned # <<>>)
    /\ (pc = "attempt") ~> (pc = "retried")

C22_Witness ==
    /\ pc = "retried"
    /\ attempts = max_retries
    /\ handle_tweets # <<>>
    /\ tweets_returned = <<>>

\* C23: a call of _get_tweets_from_handle that ends without tweets, after empty
\* results or errors only, has made fewer than 5 attempts.
C23_EscalatesEarly ==
    (pc = "retried" /\ tweets_returned = <<>>) => attempts < max_retries

\* C24: scrape_current_affairs(limit), limit >= 1, requests a section-front page
\* only while fewer than limit items are collected, and the list it returns has
\* at most limit items, all tagged current_affairs.
C24_StopsAtLimit ==
    [][/\ (pc = "pages" /\ ui' = ui + 1 /\ TopicLimit >= 1) =>
             Len(news_items) < TopicLimit
       /\ (pc = "pages" /\ pc' = "topic") =>
             /\ Len(all_news') <= Len(all_news) + TopicLimit
             /\ \A i \in (Len(all_news) + 1)..Len(all_news') :
                  all_news'[i].topic = "current_affairs"]_vars

\* C25: when get_latest_news returned a non-empty list to send_personalized_news,
\* the handler ends having sent the digest, unless a reply to the user raised.
C25_DigestDelivered ==
    [][(pc = "done" /\ caller = "news" /\ outcome = "returned" /\ result # <<>>
        /\ finished' # "none") =>
          \/ finished' = "news_send_error"
          \/ finished' = "news_sent" /\ delivered' # <<>> /\ delivered'[1] = "digest"]_vars

\* C26: a text message with a news keyword and a voice message that transcribes
\* to a text are handled as news queries: handle_text_message does not raise and
\* neither handler ends in the error reply.
C26_QueryHandled == finished \notin {"text_raised", "voice_query_error"}

\* the four frequencies a user can choose
FrequencyChoices == {"daily", "twice_daily", "weekly", "on_request"}

\* C27: every stored frequency is one of daily, twice_daily, weekly, on_request,
\* and a user who pressed a frequency button is returned by
\* get_all_users_by_frequency for the frequency of that button.
C27_FrequencyStored ==
    /\ \A u \in DOMAIN prefs : prefs[u].frequency \in FrequencyChoices
    /\ \A u \in Users :
         chosen[u] # "none" => u \in GetAllUsersByFrequency(prefs, chosen[u])

\* the users with one of the frequencies fs
UsersWith(fs) == {u \in DOMAIN prefs : prefs[u].frequency \in fs}

\* C28: the 08:00 run selects the users whose stored frequency is daily or
\* twice_daily, the 18:00 run those with twice_daily and the weekly run those
\* with weekly; no run selects a user with on_request.
C28_SelectedPerFrequency ==
    [][(\E job \in due : due' = due \ {job} /\ selected'.job = job /\ jobs' = jobs) =>
          selected'.users =
              CASE selected'.job = "_send_daily_news"   -> UsersWith({"daily", "twice_daily"})
                [] selected'.job = "_send_evening_news" -> UsersWith({"twice_daily"})
                [] selected'.job = "_send_weekly_news"  -> UsersWith({"weekly"})]_vars

\* C29: whatever start() and stop() calls were made, at most one thread is past
\* the test of self.running and executing schedule.run_pending().
C29_OneLoopThread ==
    Cardinality({t \in 1..Len(threads) : threads[t] = "pending"}) <= 1

\* the keys of the items of news_data
DigestTopics == {GroupKey(news_data[i]) : i \in 1..Len(news_data)}

\* the place of the first item of a topic
FirstAppearance(t) ==
    CHOOSE i \in 1..Len(news_data) :
        /\ GroupKey(news_data[i]) = t
        /\ \A j \in 1..(i - 1) : GroupKey(news_data[j]) # t

\* the k-th topic by first appearance
KthTopic(k) ==
    CHOOSE t \in DigestTopics :
        Cardinality({s \in DigestTopics : FirstAppearance(s) < FirstAppearance(t)}) = k - 1

\* the items of a topic, as a subsequence of news_data
ItemsOf(t) == SelectSeq(news_data, LAMBDA item : GroupKey(item) = t)

\* a digest of items that all have a content string has been built
DigestBuilt ==
    /\ pc = "digested"
    /\ max_length = {}
    /\ news_data # <<>>
    /\ \A i \in 1..Len(news_data) : news_data[i].content # None

\* C30: _group_by_topics has one key per distinct topic, in the order of first
\* appearance, an item without a topic counting as general, and under each key
\* the items of that topic in their input order, so that every item is in one
\* group; and the digest create_news_digest returns for items that all have a
\* content string is the intro, then for the k-th topic by first appearance the
\* block of its items, then the ending: one block per distinct topic.
C30_OneBlockPerTopic ==
    LET order == TopicOrder(news_data, <<>>)
        n == Cardinality(DigestTopics)
    IN  /\ Len(order) = n
        /\ \A k \in 1..n :
              /\ order[k] = KthTopic(k)
              /\ GroupOf(news_data, order[k]) = ItemsOf(KthTopic(k))
        /\ DigestBuilt =>
              /\ digest_outcome = "returned"
              /\ Len(digest) = n + 2
              /\ \A k \in 1..n :
                    \E pipeline_fails \in BOOLEAN :
                        digest[k + 1] = SummarizeTopicGroup(ItemsOf(KthTopic(k)), language,
                                                            KthTopic(k), summarizer,
                                                            pipeline_fails).text

\* a digest of two items was built, the first without a topic and the second of
\* a topic of its own: two blocks, the one labelled for general first
C30_Witness ==
    /\ DigestBuilt
    /\ Len(news_data) = 2
    /\ "topic" \notin DOMAIN news_data[1]
    /\ GroupKey(news_data[2]) = "sports"
    /\ Len(digest) = 4
    /\ digest[2] = SummarizeTopicGroup(<<news_data[1]>>, language, "general",
                                       summarizer, TRUE).text

\* the label _summarize_topic_group puts in front of a summary
BlockOf(topic, topic_summary) ==
    GetTopicInfo(topic, language).emoji \o " **" \o GetTopicInfo(topic, language).name
        \o "**: " \o topic_summary

\* the title of an item, or the first 100 characters of its content when the
\* title is absent or empty
TitleOrContent(item) ==
    IF "title" \in DOMAIN item /\ item.title # "" THEN item.title
    ELSE Slice100(item.content)

\* C31: in a digest built without a summarization pipeline the summary of every
\* group is the title of the group's first item, or the first 100 characters of
\* its content when that item has no title or an empty one; with a pipeline the
\* summary is that text or the pipeline's.
C31_LeadTitleFallback ==
    DigestBuilt =>
        \A k \in 1..Cardinality(DigestTopics) :
            LET lead == ItemsOf(KthTopic(k))[1]
                fallback == BlockOf(KthTopic(k), TitleOrContent(lead))
            IN  /\ Len(digest) >= k + 1
                /\ IF summarizer = "None"
                   THEN digest[k + 1] = fallback
                   ELSE digest[k + 1] \in {fallback, BlockOf(KthTopic(k), AiSummary)}

\* C33: in a digest that was built, two different topics of the closed set have
\* different labels: _get_topic_info gives each topic its own emoji and name in
\* the language of the digest.
C33_OwnTopicLabel ==
    DigestBuilt =>
        \A s, t \in DigestTopics \cap TopicEnum :
            s # t => GetTopicInfo(s, language) # GetTopicInfo(t, language)

\* the places of the keywords that occur in a content, and of those that occur
\* in it as a whole word
Occurring(content) == {i \in 1..Len(keywords) : Contains(content, keywords[i])}
OccurringWhole(content) ==
    {i \in Occurring(content) : WholeWord(content, keywords[i])}

NewsTexts ==
    {text \in TweetTexts :
        HasNewsIndicator(text) /\ ~(WordCount(text) <= 8) /\ ~HasPromoTerm(text)}

\* C35: _is_news_tweet accepts exactly the texts that have a news-indicator term,
\* more than 8 words and no promotional term, and every item made from the tweets
\* of a handle has such a text as its content.
C35_NewsTweetFilter ==
    /\ \A text \in TweetTexts : IsNewsTweet(text) <=> text \in NewsTexts
    /\ pc = "handles" =>
          \A i \in 1..Len(news_items) : news_items[i].content \in NewsTexts

\* a handle has delivered tweets and one of them became an item, while texts of
\* exactly 8 words, without an indicator and with a promotional term exist
C35_Witness ==
    /\ pc = "handles"
    /\ twitter_success
    /\ Len(news_items) = 1
    /\ news_items[1].content = NewsTweetText
    /\ ui > 2
    /\ {EightWordText, PlainTweetText, PromoTweetText} \cap NewsTexts = {}

\* the topics a user has stored, as a set
TopicSet(table, u) ==
    {GetUserPreferences(table, u).topics[i] :
        i \in 1..Len(GetUserPreferences(table, u).topics)}

\* the topics the buttons stand for
ButtonTopics == {AfterPrefix(button) : button \in TopicButtons}

\* C36: no stored topic list has a topic twice; a press of a topic button adds
\* the topic to the list of the user who pressed when it is absent and removes
\* it when present, leaving the other users' rows as they were; and a second
\* press of the same button gives back the set of topics the user had.
C36_TopicToggle ==
    /\ [](\A u \in DOMAIN prefs :
            Cardinality(TopicSet(prefs, u)) = Len(prefs[u].topics))
    /\ [](\A u \in Users, t \in ButtonTopics :
            TopicSet(ToggleTopic(ToggleTopic(prefs, u, t), u, t), u) = TopicSet(prefs, u))
    /\ [][(\E w \in Users : TopicSet(prefs', w) # TopicSet(prefs, w)) =>
            \E u \in Users, t \in ButtonTopics :
                /\ TopicSet(prefs', u) =
                       IF t \in TopicSet(prefs, u) THEN TopicSet(prefs, u) \ {t}
                       ELSE TopicSet(prefs, u) \cup {t}
                /\ \A v \in Users \ {u} :
                       /\ v \in DOMAIN prefs' <=> v \in DOMAIN prefs
                       /\ v \in DOMAIN prefs => prefs'[v] = prefs[v]]_vars

\* user 2 has both topics, in the order pressed, and user 1, who pressed a
\* button twice, has a row without topics
C36_Witness ==
    /\ finished = "topics_shown"
    /\ DOMAIN prefs = {1, 2}
    /\ prefs[1] = DefaultRow
    /\ prefs[2].topics = <<"current_affairs", "technology">>

\* C37: after mark_setup_complete(u) returned True, u is among
\* get_active_users(), whether u had a row before or not; and after
\* update_user_preference(u, key, value) returned True the row of u holds value
\* under key.
C37_UpdateIsStored ==
    store_call.returned =>
        /\ store_call.user \in DOMAIN prefs
        /\ store_call.op = "mark_setup_complete" =>
              /\ store_call.user \in GetActiveUsers(prefs)
              /\ prefs[store_call.user].setup_complete = 1
        /\ store_call.op = "update_user_preference" =>
              prefs[store_call.user].frequency = DirectFrequency

\* C32: the text _prepare_text_for_summarization returns holds nothing of the
\* items after the fifth and is at most 1000 characters long.
C32_PreparedWithinBound ==
    pc = "prepared" =>
        /\ combined <= SumLens(Take(contents, 5)) + 4
        /\ \A extra \in ContentLens :
              Len(contents) >= 5 => PreparedLen(Append(contents, extra)) = combined
        /\ combined <= 1000

\* C38: when _send_news_to_users returns, _send_scheduled_news has been called
\* once for every user of the list, in the order of the list, whether or not the
\* calls for earlier users failed; and while the loop runs the calls made are
\* those for the users up to its place.
C38_EveryUserAttempted ==
    /\ pc = "sending" =>
          /\ Len(send_log) = Min(send_i, Len(send_users) + 1) - 1
          /\ \A k \in 1..Len(send_log) : send_log[k].user = send_users[k]
    /\ finished = "send_returned" =>
          /\ Len(send_log) = Len(send_users)
          /\ \A k \in 1..Len(send_users) : send_log[k].user = send_users[k]

\* the call has returned after the delivery for the first of two users failed
\* and the one for the second went through
C38_Witness ==
    /\ finished = "send_returned"
    /\ send_users = <<2, 1>>
    /\ send_log = <<[user |-> 2, raised |-> "fetch", ends |-> "logged"],
                    [user |-> 1, raised |-> "none", ends |-> "returned"]>>

\* C39: when scrape_current_affairs returns for a limit of at least 1, the items
\* it returns are as many as the distinct headlines it counted, or as the limit
\* if that is less; so they are not empty when a headline was counted.
C39_CountedAreReturned ==
    [][(pc = "pages" /\ pc' = "topic" /\ TopicLimit >= 1) =>
          /\ counted # {} => Len(all_news') > Len(all_news)
          /\ Len(all_news') - Len(all_news) = Min(TopicLimit, Cardinality(counted))]_vars

\* the lists one pass of the loop can collect by itself, starting from an empty
\* list
OneAttemptTweets(lim) ==
    {ScanAttempt(raw, 1, lim, <<>>, error).tweets :
        raw \in SeqsUpTo(QueriedTweet, MaxUnit), error \in ErrorTexts \cup {"none"}}

\* C40: the list _get_tweets_from_handle(handle, limit) returns has at most limit
\* tweets and is what the pass that succeeded collected by itself: no tweet of an
\* earlier pass that raised is in it.
C40_OnlySucceedingAttempt ==
    [][(pc = "attempt" /\ pc' = "retried") =>
          /\ Len(tweets_returned') <= limit
          /\ tweets_returned' = <<>> \/ tweets_returned' \in OneAttemptTweets(limit)]_vars

====
